---- MODULE Spec2Model ----
(***************************************************************************)
(* A model of the learning core of the Tomas engine: the rule engine       *)
(* (nucleus/sophia.py), the affect engine (nucleus/logos.py), the          *)
(* associative memory (nucleus/shared_memory.py), the grid perception     *)
(* helpers (nucleus/aisthesis.py, matrix_difference_utils.py,              *)
(* spatial_perception_module.py), the parsing of the decision              *)
(* (utils/response_parser.py) and the detection of progress.               *)
(*                                                                         *)
(* Numbers.  Confidences of rules and hypotheses are kept in thousandths   *)
(* (0.4 is 400, 1.0 is 1000): every literal the rule engine adds or        *)
(* subtracts is a multiple of 0.001.  The code keeps them as binary        *)
(* floats; where a float compares differently from its thousandth (a sum   *)
(* a rounding error short of a threshold), the comparison is a choice of   *)
(* the step, see AtLeast.  The emotions of the affect engine are kept in   *)
(* ten-thousandths (0.08 is 800, 1.0 is 10000); their products with the    *)
(* stability modifier and the momentum factor are rounded to the nearest   *)
(* ten-thousandth, see RoundDiv.                                           *)
(*                                                                         *)
(* Each component is one object of the program with its own handlers; a    *)
(* specification per component steps that component and leaves the         *)
(* variables of the others unchanged.                                      *)
(***************************************************************************)
EXTENDS Integers, Sequences, FiniteSets, TLC

VARIABLES
    \* NucleiSophia (sophia.py)
    confirmed_rules,     \* dict rule_id -> GameRule, as the sequence of its values in insertion order
    active_hypotheses,   \* dict hypothesis_id -> Hypothesis, likewise
    turn_counter,        \* self.turn_counter
    observations,        \* the effect texts of the last 3 entries of self.observations
    game_objective,      \* confidence of self.game_objective, -1 while it is None
    promotions,          \* the _promote_hypothesis_to_rule calls of the latest process() call
    script,              \* the observations the game is yet to give before any may come
    horizon,             \* the turn at which the exploration of process() calls stops
    \* NucleiLogos and its HumanPsychologyEngine (logos.py)
    psychology,          \* self.psychology: the fields of the HumanPsychologyEngine
    last_frame_data,     \* whether self.last_frame_data is set
    logos_result,        \* how the latest NucleiLogos.process call ended
    ideal_states,        \* the ideal states of the last 3 update_psychology calls
    logos_calls,         \* the number of NucleiLogos.process calls so far
    logos_script,        \* the calls the game is yet to make before any may come
    logos_horizon,       \* the call at which the exploration of process() calls stops
    \* AdvancedSharedMemory (shared_memory.py)
    memory,              \* the fields of the AdvancedSharedMemory instance
    clock,               \* time.time(), in ticks of 300 s
    inserted,            \* the number of records inserted so far, the id of the next
    last_insertion,      \* what the latest call inserted and evicted
    last_query,          \* what the latest call was asked for and returned
    memory_steps,        \* the number of calls made and waits so far
    memory_script,       \* the calls yet to be made before any may come
    memory_horizon,      \* the step at which the exploration stops
    \* the grid helpers (aisthesis.py, matrix_difference_utils.py)
    matrix_before,       \* the grid of the frame before the action
    matrix_after,        \* the grid of the frame after the action
    grid_call,           \* the helper called latest on the two grids
    grid_result,         \* what that call returned
    \* the parsing of the decision (logos.py, utils/response_parser.py)
    response_text,       \* the text the decision layer answered with
    action_data,         \* what _parse_action_response made of it
    \* the detection of progress (logos.py, data_structures.py)
    aisthesis_analysis,  \* the analysis text of the perception, in lower case
    frame_scores,        \* the score of the frame before the action and after
    progress,            \* what _detect_progress returned
    \* NucleiAisthesis.analyze_action_effect (aisthesis.py)
    game_frames,         \* the score and the state of the two latest frames
    structured_data,     \* the AisthesisStructuredData of the latest analysis
    \* the queue of orders of the agent (agents/tomas/tomas.py)
    order_queue,         \* self.pending_orders and self.current_order_index
    game_state,          \* the state of the latest frame
    to_move,             \* who acts next: the agent, the game, none after a win
    last_choice,         \* what the latest choose_action call did
    queued,              \* the list of the latest add_orders_from_logos call
    handed_out           \* the places of the orders get_next_order returned since

sophiaVars == <<confirmed_rules, active_hypotheses, turn_counter, observations,
                game_objective, promotions, script, horizon>>

logosVars == <<psychology, last_frame_data, logos_result, ideal_states,
               logos_calls, logos_script, logos_horizon>>

memoryVars == <<memory, clock, inserted, last_insertion, last_query, memory_steps,
                memory_script, memory_horizon>>

gridVars == <<matrix_before, matrix_after, grid_call, grid_result>>

parserVars == <<response_text, action_data>>

progressVars == <<aisthesis_analysis, frame_scores, progress>>

perceptionVars == <<game_frames, structured_data>>

ordersVars == <<order_queue, game_state, to_move, last_choice, queued, handed_out>>

vars == <<sophiaVars, logosVars, memoryVars, gridVars, parserVars, progressVars,
          perceptionVars, ordersVars>>

----------------------------------------------------------------------------
(* Bounds of the model *)

MaxTurns == 2

----------------------------------------------------------------------------
(* Small helpers *)

Min(a, b) == IF a <= b THEN a ELSE b
Max(a, b) == IF a >= b THEN a ELSE b

Last3(s) == IF Len(s) <= 3 THEN s ELSE SubSeq(s, Len(s) - 2, Len(s))
Last5(s) == IF Len(s) <= 5 THEN s ELSE SubSeq(s, Len(s) - 4, Len(s))

Ids(s) == {s[i].id : i \in 1..Len(s)}

\* dict[key] = value: replace the entry of an existing key in place, append a new key
DictPut(d, rec) ==
    IF rec.id \in Ids(d)
    THEN [i \in 1..Len(d) |-> IF d[i].id = rec.id THEN rec ELSE d[i]]
    ELSE Append(d, rec)

\* del dict[key]
DictDel(d, id) == SelectSeq(d, LAMBDA r : r.id # id)

----------------------------------------------------------------------------
(* The observations given to NucleiSophia.process *)

\* action strings: game_action_to_string names, "action_0" being the RESET action
Actions == {"up", "space", "action_0"}

\* effect texts (the level texts are the ones NucleiAisthesis.analyze_action_effect returns)
E_OK       == "ok"
E_NOEFFECT == "no effect"
E_MOVED    == "player moved one cell"
E_CHANGED  == "cell changed"
E_LEVELUP  == "LEVEL UP! Score increased from 0 to 1. Started new level - ready for object detection in new environment!"
E_LOST     == "LEVEL LOST! Game state changed to GAME_OVER. Game over - ready to restart or analyze failure."
E_RESET    == "GAME RESET! Ready to start fresh attempt. New game state - ready for object detection in clean environment!"

Effects == {E_OK, E_NOEFFECT, E_MOVED, E_CHANGED, E_LEVELUP, E_LOST, E_RESET}

\* the keywords tested by sophia.py that occur in effect.lower()
Keywords(effect) ==
    CASE effect = E_OK       -> {}
      [] effect = E_NOEFFECT -> {"no effect"}
      [] effect = E_MOVED    -> {"moved"}
      [] effect = E_CHANGED  -> {"changed"}
      [] effect = E_LEVELUP  -> {"object", "score", "level", "level up", "new level", "level up!"}
      [] effect = E_LOST     -> {"changed", "level", "level lost", "restart", "game over"}
      [] effect = E_RESET    -> {"object", "game reset", "reset"}

\* any(keyword in effect for keyword in kws)
AnyIn(effect, kws) == Keywords(effect) \cap kws # {}

\* len(effect.strip()) > 10
Meaningful(effect) == effect \notin {E_OK, E_NOEFFECT}

----------------------------------------------------------------------------
(* Descriptions.  A description is the f-string template that built it and *)
(* the action it was built with.  With the action names above, the action  *)
(* word occurs in a description exactly when the template interpolates the *)
(* same action; the PROGRESS template interpolates none.                   *)

\* action.split()[0].lower() in description.lower()
DescHasAction(desc, action) == desc.tmpl # "PROGRESS" /\ desc.act = action

\* the words of _check_rule_consistency's contradictory pairs found in a description
\* the words of the template, and the word the interpolated action text brings
TemplateWords(desc) ==
    CASE desc.tmpl \in {"MOVEMENT", "EXPL_MOVEMENT"} -> {"move"}
      [] desc.tmpl = "CONSTRAINT" -> {"blocked"}
      [] desc.tmpl = "INTERACTION" -> {"activate"}
      [] desc.tmpl \in {"PROGRESS", "LT_UP", "LT_LOST", "LT_RESET", "TRANSFORMATION",
                        "OBJECT_MANIP"} -> {"can"}
      [] OTHER -> {}

DescWords(desc) ==
    TemplateWords(desc)
      \cup (IF desc.tmpl # "PROGRESS" /\ desc.act = "blocked" THEN {"blocked"} ELSE {})

----------------------------------------------------------------------------
(* NucleiSophia: records *)

\* GameRule.  supporting_evidence keeps the turn numbers parsed from the last 3
\* evidence strings, -1 for the "Promoted from hypothesis" entry, which has no
\* "Turn N:" prefix; the code reads supporting_evidence[-3:] and whether the list
\* has 3 entries, nothing else.  contradicting_evidence, which the code only
\* appends to, is kept as the number of its entries.
GameRule(id, type, desc, conf, ev, turn, sup, proven) ==
    [id |-> id, rule_type |-> type, description |-> desc, confidence |-> conf,
     evidence_count |-> ev, last_confirmed |-> turn, supporting_evidence |-> sup,
     contradicting_evidence |-> 0, level_proven |-> proven]

Hypothesis(id, type, desc, conf, ev) ==
    [id |-> id, rule_type |-> type, description |-> desc, confidence |-> conf,
     evidence_count |-> ev]

Description(tmpl, act) == [tmpl |-> tmpl, act |-> act]

----------------------------------------------------------------------------
(* NucleiSophia._check_existing_rules *)

_effect_supports_rule(effect, rule) ==
    CASE rule.rule_type = "movement"    -> AnyIn(effect, {"moved", "position"})
      [] rule.rule_type = "interaction" -> AnyIn(effect, {"changed", "activated"})
      [] OTHER -> TRUE

_effect_supports_hypothesis(effect, hyp) ==
    CASE hyp.rule_type = "movement"      -> AnyIn(effect, {"moved", "position"})
      [] hyp.rule_type = "interaction"   -> AnyIn(effect, {"changed", "activated"})
      [] hyp.rule_type = "win_condition" -> AnyIn(effect, {"score", "level", "progress"})
      [] hyp.rule_type = "constraint"    -> AnyIn(effect, {"no effect", "blocked"})
      [] OTHER -> TRUE

\* mutant: the update without its min(1.0, ...)
CapConfidence_NoCap(x) == x

\* min(1.0, x) and max(floor, x) of the confidence updates
CapConfidence(x) == Min(1000, x)
FloorConfidence(floor, x) == Max(floor, x)

\* confidence >= threshold.  Confidences are kept in thousandths; the code
\* keeps binary floats, where a sum of decimal steps that nominally reaches a
\* threshold can land a rounding error below it (0.6 + 0.1 + 0.1 < 0.8).
\* short is the set of ids of the rules and hypotheses whose stored float is
\* that much short of the thousandth it stands at.
AtLeast(rec, threshold, short) ==
    \/ rec.confidence > threshold
    \/ rec.confidence = threshold /\ rec.id \notin short

\* the tier-dependent boost of a supported rule
ConfidenceBoost(rule, short) ==
    IF AtLeast(rule, 800, short) THEN 20
    ELSE IF AtLeast(rule, 600, short) THEN 50 ELSE 80

\* the reinforcement bonus: the last 3 evidence entries hold at least 2 turn
\* numbers and the last two of them are at most 3 turns apart
ReinforcementBonus(sup) ==
    LET recent_turns == SelectSeq(Last3(sup), LAMBDA t : t >= 0)
        n == Len(recent_turns)
    IN  /\ Len(sup) >= 3
        /\ n >= 2
        /\ recent_turns[n] - recent_turns[n - 1] <= 3

\* rule.evidence_count += 1 of a supported rule
SupportEvidence(ev) == ev + 1

ReinforceRule(rule, turn, short) ==
    LET boosted == CapConfidence(rule.confidence + ConfidenceBoost(rule, short))
        sup     == Last3(Append(rule.supporting_evidence, turn))
    IN  [rule EXCEPT !.evidence_count = SupportEvidence(rule.evidence_count),
                     !.confidence = IF ReinforcementBonus(sup)
                                    THEN CapConfidence(boosted + 30) ELSE boosted,
                     !.last_confirmed = turn,
                     !.supporting_evidence = sup]

\* mutant: a contradiction that also takes back one piece of evidence
ContradictRule_Uncount(rule) ==
    [rule EXCEPT !.confidence = Max(100, rule.confidence - 100),
                 !.contradicting_evidence = rule.contradicting_evidence + 1,
                 !.evidence_count = rule.evidence_count - 1]

\* mutant: a contradiction that also takes the level-proven flag back
ContradictRule_Unflag(rule) ==
    [rule EXCEPT !.contradicting_evidence = rule.contradicting_evidence + 1,
                 !.confidence = FloorConfidence(100, rule.confidence - 100),
                 !.level_proven = FALSE]

ContradictRule(rule) ==
    [rule EXCEPT !.contradicting_evidence = rule.contradicting_evidence + 1,
                 !.confidence = FloorConfidence(100, rule.confidence - 100)]

CheckRule(rule, action, effect, turn, short) ==
    IF DescHasAction(rule.description, action)
    THEN IF _effect_supports_rule(effect, rule)
         THEN ReinforceRule(rule, turn, short)
         ELSE ContradictRule(rule)
    ELSE rule

CheckHypothesis(hyp, action, effect) ==
    IF DescHasAction(hyp.description, action)
    THEN IF _effect_supports_hypothesis(effect, hyp)
         THEN [hyp EXCEPT !.evidence_count = hyp.evidence_count + 1,
                          !.confidence = CapConfidence(hyp.confidence + 100)]
         ELSE [hyp EXCEPT !.confidence = FloorConfidence(100, hyp.confidence - 100)]
    ELSE hyp

_check_existing_rules_rules(rules, action, effect, turn, short) ==
    [i \in 1..Len(rules) |-> CheckRule(rules[i], action, effect, turn, short)]

_check_existing_rules_hyps(hyps, action, effect) ==
    [i \in 1..Len(hyps) |-> CheckHypothesis(hyps[i], action, effect)]

----------------------------------------------------------------------------
(* NucleiSophia._discover_new_patterns and the _create_*_hypothesis methods *)

\* mutant: the id without the number of rules and hypotheses
RuleId_NoCount(prefix, act, rules, hyps) == <<prefix, act, 0>>

\* rule_id = f"{PREFIX}_{ACTION}_{len(confirmed_rules) + len(active_hypotheses)}"
RuleId(prefix, act, rules, hyps) == <<prefix, act, Len(rules) + Len(hyps)>>

\* the shape shared by every _create_*_hypothesis but the movement one:
\* build the id, and store a new Hypothesis if the id is not an active one
CreateHypothesis(rules, hyps, prefix, idact, type, desc, conf) ==
    LET rule_id == RuleId(prefix, idact, rules, hyps)
    IN  IF rule_id \notin Ids(hyps)
        THEN DictPut(hyps, Hypothesis(rule_id, type, desc, conf, 1))
        ELSE hyps

\* the index of the first active hypothesis of the type whose description
\* holds the action word, 0 if there is none
_find_similar_hypothesis(hyps, action, type) ==
    LET found == {i \in 1..Len(hyps) : /\ hyps[i].rule_type = type
                                       /\ DescHasAction(hyps[i].description, action)}
    IN  IF found = {} THEN 0 ELSE CHOOSE i \in found : \A j \in found : i <= j

\* the update of an existing similar hypothesis by _create_movement_hypothesis
MergeUpdate(hyp) ==
    [hyp EXCEPT !.evidence_count = hyp.evidence_count + 1,
                !.confidence = CapConfidence(hyp.confidence + 50)]

_create_movement_hypothesis(rules, hyps, action) ==
    LET k == _find_similar_hypothesis(hyps, action, "movement")
    IN  IF k # 0
        THEN [hyps EXCEPT ![k] = MergeUpdate(hyps[k])]
        ELSE DictPut(hyps, Hypothesis(RuleId("MOVEMENT", action, rules, hyps), "movement",
                                      Description("MOVEMENT", action), 400, 1))

_create_constraint_hypothesis(rules, hyps, action) ==
    CreateHypothesis(rules, hyps, "CONSTRAINT", action, "constraint",
                     Description("CONSTRAINT", action), 500)

_create_interaction_hypothesis(rules, hyps, action) ==
    CreateHypothesis(rules, hyps, "INTERACTION", action, "interaction",
                     Description("INTERACTION", action), 600)

_create_transformation_hypothesis(rules, hyps, action) ==
    CreateHypothesis(rules, hyps, "TRANSFORMATION", action, "state_change",
                     Description("TRANSFORMATION", action), 600)

_create_exploratory_hypothesis(rules, hyps, action, category) ==
    IF category = "movement"
    THEN CreateHypothesis(rules, hyps, "EXPLORATORY_MOVEMENT", action, "movement",
                          Description("EXPL_MOVEMENT", action), 400)
    ELSE CreateHypothesis(rules, hyps, "EXPLORATORY_INTERACTION", action, "interaction",
                          Description("EXPL_INTERACTION", action), 400)

_create_object_manipulation_hypothesis(rules, hyps, action) ==
    CreateHypothesis(rules, hyps, "OBJECT_MANIP", action, "interaction",
                     Description("OBJECT_MANIP", action), 700)

_create_environment_hypothesis(rules, hyps, action) ==
    CreateHypothesis(rules, hyps, "ENVIRONMENT", action, "interaction",
                     Description("ENVIRONMENT", action), 650)

_create_progress_hypothesis(rules, hyps, action) ==
    CreateHypothesis(rules, hyps, "PROGRESS", "", "win_condition",
                     Description("PROGRESS", action), 700)

_create_level_transition_hypothesis(rules, hyps, action, effect) ==
    LET tmpl == IF "level up" \in Keywords(effect) THEN "LT_UP"
                ELSE IF "level lost" \in Keywords(effect) THEN "LT_LOST"
                ELSE IF "game reset" \in Keywords(effect) THEN "LT_RESET"
                ELSE "LT_OTHER"
        conf == CASE tmpl = "LT_UP" -> 800 [] tmpl = "LT_LOST" -> 700
                  [] tmpl = "LT_RESET" -> 600 [] OTHER -> 500
    IN  CreateHypothesis(rules, hyps, "LEVEL_TRANSITION", "", "state_change",
                         Description(tmpl, action), conf)

_create_timing_hypothesis(rules, hyps, action) ==
    CreateHypothesis(rules, hyps, "TIMING", action, "state_change",
                     Description("TIMING", action), 550)

_create_spatial_hypothesis(rules, hyps, action) ==
    CreateHypothesis(rules, hyps, "SPATIAL", action, "movement",
                     Description("SPATIAL", action), 600)

_create_general_hypothesis(rules, hyps, action) ==
    CreateHypothesis(rules, hyps, "GENERAL", action, "state_change",
                     Description("GENERAL", action), 300)

\* The patterns of _discover_new_patterns, one operator per "if any(keyword in
\* effect ...)" statement, each giving the hypotheses after it.
DirectionPattern(rules, hyps, action, effect) ==
    IF action \in {"up", "down", "left", "right"}
    THEN IF AnyIn(effect, {"moved", "position", "translation", "shifted", "displaced"})
         THEN _create_movement_hypothesis(rules, hyps, action)
         ELSE IF AnyIn(effect, {"no effect", "blocked", "wall", "obstacle",
                                "boundary", "constraint"})
         THEN _create_constraint_hypothesis(rules, hyps, action)
         ELSE _create_exploratory_hypothesis(rules, hyps, action, "movement")
    ELSE IF action \in {"space", "click"}
    THEN IF AnyIn(effect, {"changed", "activated", "triggered", "switched",
                           "toggled", "opened", "closed"})
         THEN _create_interaction_hypothesis(rules, hyps, action)
         ELSE IF AnyIn(effect, {"color", "shape", "appeared", "disappeared",
                                "transformed"})
         THEN _create_transformation_hypothesis(rules, hyps, action)
         ELSE _create_exploratory_hypothesis(rules, hyps, action, "interaction")
    ELSE hyps

ObjectPattern(rules, hyps, action, effect) ==
    IF AnyIn(effect, {"object", "entity", "item", "piece", "block"})
    THEN _create_object_manipulation_hypothesis(rules, hyps, action) ELSE hyps

EnvironmentPattern(rules, hyps, action, effect) ==
    IF AnyIn(effect, {"water", "fire", "door", "key", "button", "lever", "platform"})
    THEN _create_environment_hypothesis(rules, hyps, action) ELSE hyps

ProgressPattern(rules, hyps, action, effect) ==
    IF AnyIn(effect, {"score", "level", "progress", "point", "win", "complete",
                      "finish", "goal"})
    THEN _create_progress_hypothesis(rules, hyps, action) ELSE hyps

LevelTransitionPattern(rules, hyps, action, effect) ==
    IF AnyIn(effect, {"level up", "level lost", "game reset", "new level",
                      "restart", "game over"})
    THEN _create_level_transition_hypothesis(rules, hyps, action, effect) ELSE hyps

TimingPattern(rules, hyps, action, effect) ==
    IF AnyIn(effect, {"sequence", "timing", "order", "delay", "repeat"})
    THEN _create_timing_hypothesis(rules, hyps, action) ELSE hyps

SpatialPattern(rules, hyps, action, effect) ==
    IF AnyIn(effect, {"region", "area", "zone", "grid", "row", "column",
                      "center", "corner"})
    THEN _create_spatial_hypothesis(rules, hyps, action) ELSE hyps

\* the catch-all: a meaningful effect and none of the last 5 active hypotheses
\* names the action
CatchAllPattern(rules, hyps, action, effect) ==
    IF /\ Meaningful(effect)
       /\ "no effect" \notin Keywords(effect)
       /\ ~ \E i \in 1..Len(Last5(hyps)) : DescHasAction(Last5(hyps)[i].description, action)
    THEN _create_general_hypothesis(rules, hyps, action)
    ELSE hyps

_discover_new_patterns(rules, hyps, action, effect) ==
    CatchAllPattern(rules,
      SpatialPattern(rules,
        TimingPattern(rules,
          LevelTransitionPattern(rules,
            ProgressPattern(rules,
              EnvironmentPattern(rules,
                ObjectPattern(rules,
                  DirectionPattern(rules, hyps, action, effect),
                  action, effect),
                action, effect),
              action, effect),
            action, effect),
          action, effect),
        action, effect),
      action, effect)

\* NucleiSophia._update_objective_theories
_update_objective_theories(objective, effect) ==
    IF AnyIn(effect, {"level", "score", "complete", "exit", "goal"})
    THEN IF objective = -1 THEN 400 ELSE Min(1000, objective + 50)
    ELSE objective

----------------------------------------------------------------------------
(* Promotion, consolidation, decay and cross-validation *)

\* mutant: a promotion that restarts the evidence count
PromotedRule_ResetEvidence(hyp, turn) ==
    [id |-> hyp.id, rule_type |-> hyp.rule_type, description |-> hyp.description,
     confidence |-> hyp.confidence, evidence_count |-> 1, last_confirmed |-> turn,
     supporting_evidence |-> <<-1>>, contradicting_evidence |-> 0,
     level_proven |-> FALSE]

\* the GameRule built by _promote_hypothesis_to_rule
PromotedRule(hyp, turn) ==
    GameRule(hyp.id, hyp.rule_type, hyp.description, hyp.confidence,
             hyp.evidence_count, turn, <<-1>>, FALSE)

\* _promote_hypothesis_to_rule: confirmed_rules[id] = rule; del active_hypotheses[id]
_promote_hypothesis_to_rule(st, hyp, turn) ==
    [rules |-> DictPut(st.rules, PromotedRule(hyp, turn)),
     hyps  |-> DictDel(st.hyps, hyp.id)]

\* mutant: the single strict gate the three paths replaced
ShouldPromote_StrictGate(hyp, short) ==
    AtLeast(hyp, 800, short) /\ hyp.evidence_count >= 3

\* the three promotion paths of _check_hypothesis_promotions
ShouldPromote(hyp, short) ==
    \/ AtLeast(hyp, 700, short) /\ hyp.evidence_count >= 2
    \/ AtLeast(hyp, 600, short) /\ hyp.evidence_count >= 4
    \/ AtLeast(hyp, 500, short) /\ hyp.evidence_count >= 6

RECURSIVE PromoteEach(_, _, _)
PromoteEach(st, todo, turn) ==
    IF todo = <<>> THEN st
    ELSE PromoteEach(_promote_hypothesis_to_rule(st, Head(todo), turn), Tail(todo), turn)

_check_hypothesis_promotions(st, turn, short) ==
    PromoteEach(st, SelectSeq(st.hyps, LAMBDA hyp : ShouldPromote(hyp, short)), turn)

\* the boost of a rule consolidated by a level completion
ConsolidateRule(rule, turn, short) ==
    IF turn - rule.last_confirmed <= 10 /\ AtLeast(rule, 500, short)
    THEN [rule EXCEPT !.level_proven = TRUE,
                      !.confidence = CapConfidence(rule.confidence + 150),
                      !.supporting_evidence = Last3(Append(rule.supporting_evidence, turn))]
    ELSE rule

\* a hypothesis promoted by consolidation: flagged level-proven and boosted
ConsolidatePromoted(rule) ==
    [rule EXCEPT !.level_proven = TRUE,
                 !.confidence = CapConfidence(rule.confidence + 100)]

ShouldConsolidate(hyp, short) ==
    AtLeast(hyp, 600, short) /\ hyp.evidence_count >= 2

RECURSIVE ConsolidateEach(_, _, _)
ConsolidateEach(st, todo, turn) ==
    IF todo = <<>> THEN st
    ELSE LET hyp  == Head(todo)
             p    == _promote_hypothesis_to_rule(st, hyp, turn)
         IN  ConsolidateEach(
                 [p EXCEPT !.rules = [i \in 1..Len(p.rules) |->
                                        IF p.rules[i].id = hyp.id
                                        THEN ConsolidatePromoted(p.rules[i])
                                        ELSE p.rules[i]]],
                 Tail(todo), turn)

_consolidate_proven_rules(st, turn, short) ==
    ConsolidateEach(
        [rules |-> [i \in 1..Len(st.rules) |-> ConsolidateRule(st.rules[i], turn, short)],
         hyps  |-> st.hyps],
        SelectSeq(st.hyps, LAMBDA hyp : ShouldConsolidate(hyp, short)), turn)

\* an observation whose effect counts as a successful action
SuccessfulEffect(effect) ==
    /\ AnyIn(effect, {"moved", "changed", "activated", "triggered", "opened", "closed",
                      "score", "progress", "unlocked", "collected", "completed"})
    /\ "no effect" \notin Keywords(effect)

\* obs: the last 3 observations, the current one being the last
_count_recent_successful_actions(obs) ==
    IF Len(obs) < 3 THEN 0
    ELSE Cardinality({i \in 1..Len(obs) : SuccessfulEffect(obs[i])})

\* the level_up_detected of _check_for_level_completion_and_consolidate
LevelUpDetected(obs) ==
    /\ Len(obs) >= 2
    /\ LET current_effect == obs[Len(obs)]
       IN  \/ AnyIn(current_effect, {"level up!", "level completed", "next level",
                                     "level won", "level_up detected",
                                     "successfully completed level"})
           \/ /\ AnyIn(current_effect, {"reset", "new level", "fresh start", "level began"})
              /\ _count_recent_successful_actions(obs) >= 2

\* _apply_gradual_degradation of one rule
DegradeRule(rule, turn, short) ==
    LET since == turn - rule.last_confirmed
    IN  IF rule.level_proven
        THEN IF since > 25
             THEN [rule EXCEPT !.confidence =
                      FloorConfidence(700, rule.confidence - Min(10, 1 * (since - 25)))]
             ELSE rule
        ELSE IF since > 10
             THEN LET rate == IF AtLeast(rule, 800, short)
                              THEN 5 * (since - 10)
                              ELSE IF AtLeast(rule, 600, short)
                              THEN 10 * (since - 10)
                              ELSE 15 * (since - 10)
                      cap  == IF AtLeast(rule, 800, short) THEN 30
                              ELSE IF AtLeast(rule, 600, short) THEN 50
                              ELSE 80
                  IN  [rule EXCEPT !.confidence =
                          FloorConfidence(400, rule.confidence - Min(cap, rate))]
             ELSE rule

_apply_gradual_degradation_DropsDecayed(rules, turn, short) ==
    SelectSeq(rules, LAMBDA rule : DegradeRule(rule, turn, short) = rule)

_apply_gradual_degradation(rules, turn, short) ==
    [i \in 1..Len(rules) |-> DegradeRule(rules[i], turn, short)]

\* _check_rule_consistency(rule_a, rule_b) < 0.3
Inconsistent(a, b) ==
    /\ a.rule_type = b.rule_type
    /\ \E pair \in {<<"can", "cannot">>, <<"always", "never">>, <<"increase", "decrease">>,
                    <<"move", "blocked">>, <<"activate", "deactivate">>} :
          \/ pair[1] \in DescWords(a.description) /\ pair[2] \in DescWords(b.description)
          \/ pair[2] \in DescWords(a.description) /\ pair[1] \in DescWords(b.description)

\* the penalty of the weaker rule of an inconsistent pair
PenalizeWeaker(rules, i, j) ==
    LET w == IF rules[i].confidence < rules[j].confidence THEN i ELSE j
    IN  [rules EXCEPT ![w].confidence = FloorConfidence(200, rules[w].confidence - 50)]

\* the pairs (i, j), i < j, in the order of the two nested loops
RECURSIVE CrossValidateFrom(_, _, _)
CrossValidateFrom(rules, i, j) ==
    IF i >= Len(rules) THEN rules
    ELSE IF j > Len(rules) THEN CrossValidateFrom(rules, i + 1, i + 2)
    ELSE CrossValidateFrom(
             IF Inconsistent(rules[i], rules[j]) THEN PenalizeWeaker(rules, i, j) ELSE rules,
             i, j + 1)

_cross_validate_rules(rules) == CrossValidateFrom(rules, 1, 2)

----------------------------------------------------------------------------
(* _cross_validate_rules on its own: the rule dictionaries it is applied to  *)

\* the confidences of the rules drawn: the floor of a contradicted rule, the
\* confidence of a promoted hypothesis and two above it
DrawnConfidences == {100, 400, 700, 750}

\* The rules drawn.  An action text is any string the caller of process()
\* passes; "blocked" is one that brings a word of a contradictory pair into
\* the description of a movement rule.
DrawnRules ==
    {GameRule(<<d.tag, d.act, d.n>>, d.type, Description(d.tag, d.act), conf, 3, 3,
              <<1, 2, 3>>, FALSE) :
        d \in {[tag |-> "MOVEMENT", act |-> "up", type |-> "movement", n |-> 0],
               [tag |-> "SPATIAL", act |-> "blocked", type |-> "movement", n |-> 1],
               [tag |-> "SPATIAL", act |-> "up", type |-> "movement", n |-> 2],
               [tag |-> "CONSTRAINT", act |-> "up", type |-> "constraint", n |-> 3]},
        conf \in DrawnConfidences}

\* dictionaries of 2 or 3 rules, each id once
DrawnRuleLists ==
    {rules \in UNION {[1..n -> DrawnRules] : n \in 2..3} :
        \A i, j \in 1..Len(rules) : i # j => rules[i].id # rules[j].id}

----------------------------------------------------------------------------
(* NucleiSophia.process *)

\* The state of a NucleiSophia as one record.
SophiaState(rules, hyps, turn, obs, objective, proms) ==
    [rules |-> rules, hyps |-> hyps, turn |-> turn, obs |-> obs,
     objective |-> objective, promotions |-> proms]

\* NucleiSophia.__init__
FreshSophia == SophiaState(<<>>, <<>>, 0, <<>>, -1, <<>>)

RuleOf(rules, id) == rules[CHOOSE i \in 1..Len(rules) : rules[i].id = id]

\* One process(action_executed, aisthesis_analysis) call: _analyze_new_evidence
\* (_check_existing_rules, _discover_new_patterns, _update_objective_theories,
\* _check_for_level_completion_and_consolidate), _check_hypothesis_promotions,
\* _apply_gradual_degradation, _cross_validate_rules.  The insights, the
\* recommendations and the summaries are outputs computed from this state; the
\* records written to the shared memory belong to the memory's own model.
SophiaProcess(s, action, effect, short) ==
    LET turn    == s.turn + 1
        obs     == Last3(Append(s.obs, effect))
        rulesA  == _check_existing_rules_rules(s.rules, action, effect, turn, short)
        hypsA   == _check_existing_rules_hyps(s.hyps, action, effect)
        hypsB   == _discover_new_patterns(rulesA, hypsA, action, effect)
        stB     == [rules |-> rulesA, hyps |-> hypsB]
        levelUp == LevelUpDetected(obs)
        byCons  == IF levelUp
                   THEN SelectSeq(hypsB, LAMBDA hyp : ShouldConsolidate(hyp, short))
                   ELSE <<>>
        stC     == IF levelUp THEN _consolidate_proven_rules(stB, turn, short) ELSE stB
        byCheck == SelectSeq(stC.hyps, LAMBDA hyp : ShouldPromote(hyp, short))
        stD     == _check_hypothesis_promotions(stC, turn, short)
        rulesE  == _apply_gradual_degradation(stD.rules, turn, short)
        rulesF  == _cross_validate_rules(rulesE)
        proms   == [i \in 1..Len(byCons) |->
                       [by |-> "consolidation", hyp |-> byCons[i],
                        rule |-> RuleOf(stC.rules, byCons[i].id)]]
                   \o [i \in 1..Len(byCheck) |->
                       [by |-> "check", hyp |-> byCheck[i],
                        rule |-> RuleOf(stD.rules, byCheck[i].id)]]
    IN  SophiaState(rulesF, stD.hyps, turn, obs,
                    _update_objective_theories(s.objective, effect), proms)

\* The rules and hypotheses a process() call compares with a threshold they
\* stand exactly at, in a comparison whose outcome changes what the call does.
TieIds(s, action, effect) ==
    LET turn    == s.turn + 1
        obs     == Last3(Append(s.obs, effect))
        levelUp == LevelUpDetected(obs)
        Path(rule, short) ==
            LET a == CheckRule(rule, action, effect, turn, short)
                c == IF levelUp THEN ConsolidateRule(a, turn, short) ELSE a
            IN  DegradeRule(c, turn, short)
        rulesA  == _check_existing_rules_rules(s.rules, action, effect, turn, {})
        hypsA   == _check_existing_rules_hyps(s.hyps, action, effect)
        hypsB   == _discover_new_patterns(rulesA, hypsA, action, effect)
    IN  {s.rules[i].id : i \in {j \in 1..Len(s.rules) :
                                  Path(s.rules[j], {}) # Path(s.rules[j], {s.rules[j].id})}}
        \cup
        {hypsB[i].id : i \in {j \in 1..Len(hypsB) :
             \/ ShouldPromote(hypsB[j], {}) # ShouldPromote(hypsB[j], {hypsB[j].id})
             \/ /\ levelUp
                /\ ShouldConsolidate(hypsB[j], {})
                      # ShouldConsolidate(hypsB[j], {hypsB[j].id})}}

\* n observations of an action with an effect no keyword is in
Quiet(n) == [i \in 1..n |-> <<"action_0", E_OK>>]

\* The observations an exploration starts with: none; a level completed and
\* rules consolidated, then no confirmation past the grace periods of the decay
\* (10 turns, 25 for a level-proven rule); an interaction rule confirmed and
\* then contradicted; a level lost after three moves, then the game reset; a
\* movement rule contradicted ten times in a row.
Scripts ==
    { <<>>,
      <<<<"up", E_LEVELUP>>, <<"up", E_MOVED>>>> \o Quiet(9),
      <<<<"up", E_LEVELUP>>, <<"up", E_LEVELUP>>>> \o Quiet(24),
      <<<<"space", E_CHANGED>>, <<"space", E_CHANGED>>, <<"space", E_NOEFFECT>>>>,
      <<<<"up", E_MOVED>>, <<"up", E_MOVED>>, <<"up", E_MOVED>>,
        <<"up", E_LOST>>, <<"up", E_RESET>>>>,
      <<<<"up", E_MOVED>>, <<"up", E_MOVED>>, <<"up", E_MOVED>>>>
          \o [i \in 1..10 |-> <<"up", E_OK>>] }

SophiaCurrent ==
    SophiaState(confirmed_rules, active_hypotheses, turn_counter, observations,
                game_objective, promotions)

SophiaSet(s) ==
    /\ confirmed_rules' = s.rules
    /\ active_hypotheses' = s.hyps
    /\ turn_counter' = s.turn
    /\ observations' = s.obs
    /\ game_objective' = s.objective
    /\ promotions' = s.promotions

InitSophia ==
    /\ confirmed_rules = FreshSophia.rules
    /\ active_hypotheses = FreshSophia.hyps
    /\ turn_counter = FreshSophia.turn
    /\ observations = FreshSophia.obs
    /\ game_objective = FreshSophia.objective
    /\ promotions = FreshSophia.promotions
    /\ script \in Scripts
    /\ horizon = Len(script) + MaxTurns

\* one process(action, effect) call; while the script lasts, the call it gives
Process(action, effect) ==
    /\ turn_counter < horizon
    /\ script # <<>> => <<action, effect>> = Head(script)
    /\ \E short \in SUBSET TieIds(SophiaCurrent, action, effect) :
          SophiaSet(SophiaProcess(SophiaCurrent, action, effect, short))
    /\ script' = IF script = <<>> THEN script ELSE Tail(script)
    /\ UNCHANGED horizon

NextSophia == \E action \in Actions, effect \in Effects : Process(action, effect)

\* a NucleiSophia holding drawn rules, with no observation to come
InitCrossValidation ==
    /\ confirmed_rules \in DrawnRuleLists
    /\ active_hypotheses = FreshSophia.hyps
    /\ turn_counter = FreshSophia.turn
    /\ observations = FreshSophia.obs
    /\ game_objective = FreshSophia.objective
    /\ promotions = FreshSophia.promotions
    /\ script = <<>>
    /\ horizon = 0

\* one _cross_validate_rules() call
CrossValidateRules ==
    /\ confirmed_rules' = _cross_validate_rules(confirmed_rules)
    /\ UNCHANGED <<active_hypotheses, turn_counter, observations, game_objective,
                   promotions, script, horizon>>

NextCrossValidation == CrossValidateRules

\* NucleiSophia after __init__, with no observation to come
IdleSophia ==
    /\ confirmed_rules = FreshSophia.rules
    /\ active_hypotheses = FreshSophia.hyps
    /\ turn_counter = FreshSophia.turn
    /\ observations = FreshSophia.obs
    /\ game_objective = FreshSophia.objective
    /\ promotions = FreshSophia.promotions
    /\ script = <<>>
    /\ horizon = 0

----------------------------------------------------------------------------
(* The affect engine: HumanPsychologyEngine (logos.py)                      *)

MaxLogosTurns == 2

\* a / b rounded to the nearest integer, halves away from zero
RoundDiv(a, b) ==
    IF a >= 0 THEN (2 * a + b) \div (2 * b)
    ELSE -((2 * (-a) + b) \div (2 * b))

\* max(0.0, min(1.0, x))
Clamp01_Unbounded(x) == x

\* max(0.0, min(1.0, x))
Clamp01(x) == Max(0, Min(10000, x))

RECURSIVE SumSeq(_)
SumSeq(s) == IF s = <<>> THEN 0 ELSE Head(s) + SumSeq(Tail(s))

Last10(s) == IF Len(s) <= 10 THEN s ELSE SubSeq(s, Len(s) - 9, Len(s))

\* the progress types _detect_progress returns
ProgressTypes == {"MAJOR_PROGRESS", "MINOR_PROGRESS", "VALID_ACTION", "NO_EFFECT"}

Progressed(progress_type) == progress_type \in {"MAJOR_PROGRESS", "MINOR_PROGRESS"}

\* the engine after __init__
FreshPsychology ==
    [curiosity_level         |-> 8000,
     confidence              |-> 2000,
     frustration             |-> 0,
     patience                |-> 10000,
     consecutive_failures    |-> 0,
     consecutive_no_progress |-> 0,
     total_turns             |-> 0,
     successful_actions      |-> 0,
     last_progress_turn      |-> 0,
     current_state           |-> "exploring",
     turns_in_current_state  |-> 0,
     pending_state_change    |-> "None",
     state_change_confidence |-> 0,
     emotion_history         |-> <<>>,
     recent_success_rate     |-> 5000]

state_stability_threshold == 3

\* update_psychology, the counters
UpdateCounters(p, progress_type) ==
    IF Progressed(progress_type)
    THEN [p EXCEPT !.total_turns = @ + 1,
                   !.turns_in_current_state = @ + 1,
                   !.last_progress_turn = p.total_turns + 1,
                   !.consecutive_no_progress = 0,
                   !.consecutive_failures = 0,
                   !.successful_actions = @ + 1]
    ELSE IF progress_type = "VALID_ACTION"
    THEN [p EXCEPT !.total_turns = @ + 1,
                   !.turns_in_current_state = @ + 1,
                   !.consecutive_failures = 0,
                   !.consecutive_no_progress = @ + 1]
    ELSE [p EXCEPT !.total_turns = @ + 1,
                   !.turns_in_current_state = @ + 1,
                   !.consecutive_failures = @ + 1,
                   !.consecutive_no_progress = @ + 1]

base_confidence_change(progress_type) ==
    IF progress_type = "MAJOR_PROGRESS" THEN 800
    ELSE IF progress_type = "MINOR_PROGRESS" THEN 300
    ELSE IF progress_type = "VALID_ACTION" THEN 100
    ELSE -300

base_frustration_change_Relief(progress_type) ==
    IF progress_type = "MAJOR_PROGRESS" THEN -800
    ELSE IF progress_type = "MINOR_PROGRESS" THEN -300
    ELSE IF progress_type = "VALID_ACTION" THEN 100
    ELSE 0

base_frustration_change(progress_type) ==
    IF progress_type = "MAJOR_PROGRESS" THEN -800
    ELSE IF progress_type = "MINOR_PROGRESS" THEN -300
    ELSE IF progress_type = "VALID_ACTION" THEN 100
    ELSE 800

base_patience_change(progress_type) ==
    IF progress_type = "MAJOR_PROGRESS" THEN 500
    ELSE IF progress_type = "MINOR_PROGRESS" THEN 200
    ELSE IF progress_type = "VALID_ACTION" THEN 0
    ELSE -500

curiosity_decay(progress_type) ==
    IF Progressed(progress_type) THEN 50
    ELSE IF progress_type = "VALID_ACTION" THEN 150
    ELSE 250

success_value(progress_type) ==
    IF progress_type = "MAJOR_PROGRESS" THEN 10000
    ELSE IF progress_type = "MINOR_PROGRESS" THEN 7000
    ELSE IF progress_type = "VALID_ACTION" THEN 4000
    ELSE 0

\* the squares of the distances of the values from their mean
SquaredDeviations(values, mean_val) ==
    [i \in 1..Len(values) |-> (values[i] - mean_val) * (values[i] - mean_val)]

\* variance(values) of _calculate_emotional_stability, in units of 1e-8
variance(values) ==
    IF Len(values) < 2 THEN 0
    ELSE RoundDiv(SumSeq(SquaredDeviations(values,
                                           RoundDiv(SumSeq(values), Len(values)))),
                  Len(values))

frustration_values(history) == [i \in 1..Len(history) |-> history[i].frustration]
confidence_values(history) == [i \in 1..Len(history) |-> history[i].confidence]

\* (frustration_var + confidence_var) / 2 over the recent emotions, in units of 1e-8
avg_variance(recent_emotions) ==
    RoundDiv(variance(frustration_values(recent_emotions))
             + variance(confidence_values(recent_emotions)), 2)

_calculate_emotional_stability(p) ==
    IF Len(p.emotion_history) < 3 THEN 5000
    ELSE Max(1000,
             10000 - Min(10000,
                         RoundDiv(avg_variance(Last5(p.emotion_history)) * 4, 10000)))

\* max(0.5, stability)
stability_modifier(p) == Max(5000, _calculate_emotional_stability(p))

\* a base change times the stability modifier
Modified(change, modifier) == RoundDiv(change * modifier, 10000)

\* current_value - prev_value, prev_value being the emotion in the latest entry
\* of the history
Momentum(p, emotion_type) ==
    p[emotion_type] - p.emotion_history[Len(p.emotion_history)][emotion_type]

\* the momentum factor in tenths
momentum_factor(change, momentum) ==
    IF (change > 0 /\ momentum > 0) \/ (change < 0 /\ momentum < 0) THEN 11
    ELSE IF (change > 0 /\ momentum < 0) \/ (change < 0 /\ momentum > 0) THEN 8
    ELSE 10

final_change(p, emotion_type, change) ==
    IF Len(p.emotion_history) >= 2
    THEN RoundDiv(change * momentum_factor(change, Momentum(p, emotion_type)), 10)
    ELSE change

\* the value _update_with_momentum sets the emotion to
_update_with_momentum(p, emotion_type, change) ==
    Clamp01(p[emotion_type] + final_change(p, emotion_type, change))

\* update_psychology, the three emotions: each update reads its own emotion and
\* the history, which is appended to only afterwards
UpdateEmotions(p, progress_type, confidence_adjustment) ==
    [p EXCEPT
       !.confidence = _update_with_momentum(p, "confidence",
            Modified(base_confidence_change(progress_type), stability_modifier(p))
            + confidence_adjustment),
       !.frustration = _update_with_momentum(p, "frustration",
            Modified(base_frustration_change(progress_type), stability_modifier(p))),
       !.patience = _update_with_momentum(p, "patience",
            Modified(base_patience_change(progress_type), stability_modifier(p)))]

\* (1 - decay_factor) * recent_success_rate + decay_factor * success_value
_update_success_rate(p, progress_type) ==
    [p EXCEPT !.recent_success_rate =
                  RoundDiv(8 * @ + 2 * success_value(progress_type), 10)]

DecayCuriosity(p, progress_type) ==
    [p EXCEPT !.curiosity_level = Max(1000, @ - curiosity_decay(progress_type))]

current_emotions(p) ==
    [confidence |-> p.confidence, frustration |-> p.frustration,
     curiosity |-> p.curiosity_level, patience |-> p.patience]

\* the emotions appended to the history, of which the last 10 are kept
RecordEmotions(p) ==
    [p EXCEPT !.emotion_history = Last10(Append(@, current_emotions(p)))]

\* update_psychology up to the call of _stable_transition_mental_state
BeforeTransition(p, progress_type, confidence_adjustment) ==
    RecordEmotions(
        DecayCuriosity(
            _update_success_rate(
                UpdateEmotions(UpdateCounters(p, progress_type),
                               progress_type, confidence_adjustment),
                progress_type),
            progress_type))

\* The engine compares floats.  A value that stands exactly at a threshold here
\* may be a rounding error past it there (0.8 * 0.5 + 0.2 * 1.0 is
\* 0.6000000000000001); the fields in `past' are the ones for which it is.
Above(p, field, threshold, past) ==
    \/ p[field] > threshold
    \/ p[field] = threshold /\ field \in past

Below(p, field, threshold, past) ==
    \/ p[field] < threshold
    \/ p[field] = threshold /\ field \in past

_calculate_ideal_state_IgnoresFailures(p, past) ==
    IF Above(p, "frustration", 7000, past) THEN "frustrated"
    ELSE IF p.consecutive_no_progress > 8 THEN "frustrated"
    ELSE "exploring"

\* mutant: the confident modes tested before the frustration
_calculate_ideal_state_ConfidenceFirst(p, past) ==
    IF Above(p, "confidence", 8000, past)
       /\ Above(p, "recent_success_rate", 6000, past) THEN "optimization"
    ELSE IF Above(p, "confidence", 5000, past) /\ p.successful_actions > 1
         THEN "hypothesis_testing"
    ELSE IF Above(p, "frustration", 7000, past) THEN "frustrated"
    ELSE IF p.consecutive_no_progress > 8 THEN "frustrated"
    ELSE IF p.consecutive_failures > 4 THEN "frustrated"
    ELSE IF Below(p, "curiosity_level", 5000, past) /\ p.successful_actions > 0
         THEN "pattern_seeking"
    ELSE "exploring"

_calculate_ideal_state(p, past) ==
    IF Above(p, "frustration", 7000, past) THEN "frustrated"
    ELSE IF p.consecutive_no_progress > 8 THEN "frustrated"
    ELSE IF p.consecutive_failures > 4 THEN "frustrated"
    ELSE IF Above(p, "confidence", 8000, past)
            /\ Above(p, "recent_success_rate", 6000, past) THEN "optimization"
    ELSE IF Above(p, "confidence", 5000, past) /\ p.successful_actions > 1
         THEN "hypothesis_testing"
    ELSE IF Below(p, "curiosity_level", 5000, past) /\ p.successful_actions > 0
         THEN "pattern_seeking"
    ELSE "exploring"

\* the fields that stand exactly at a threshold _calculate_ideal_state compares
\* them with
AtThreshold(p) ==
    {f \in {"frustration"} : p[f] = 7000}
    \cup {f \in {"confidence"} : p[f] = 8000 \/ p[f] = 5000}
    \cup {f \in {"recent_success_rate"} : p[f] = 6000}
    \cup {f \in {"curiosity_level"} : p[f] = 5000}

Confirmed_AtTwo(confirmations) == confirmations >= 2

\* state_change_confidence >= state_stability_threshold
Confirmed(confirmations) == confirmations >= state_stability_threshold

\* the pending change confirmed once more, and made when confirmed often enough
ConfirmPending(p, ideal_state) ==
    IF Confirmed(p.state_change_confidence + 1)
    THEN [p EXCEPT !.current_state = ideal_state,
                   !.pending_state_change = "None",
                   !.state_change_confidence = 0,
                   !.turns_in_current_state = 0]
    ELSE [p EXCEPT !.state_change_confidence = @ + 1]

StartPending(p, ideal_state) ==
    [p EXCEPT !.pending_state_change = ideal_state,
              !.state_change_confidence = 1]

\* mutant: a revert that clears the pending mode and keeps its confirmations
CancelPending_KeepsCount(p) ==
    [p EXCEPT !.pending_state_change = "None"]

CancelPending(p) ==
    [p EXCEPT !.pending_state_change = "None",
              !.state_change_confidence = 0]

TransitionTo(p, ideal_state) ==
    IF ideal_state # p.current_state
    THEN IF p.pending_state_change = ideal_state
         THEN ConfirmPending(p, ideal_state)
         ELSE StartPending(p, ideal_state)
    ELSE CancelPending(p)

_stable_transition_mental_state(p, past) ==
    TransitionTo(p, _calculate_ideal_state(p, past))

update_psychology(p, progress_type, confidence_adjustment, past) ==
    _stable_transition_mental_state(
        BeforeTransition(p, progress_type, confidence_adjustment), past)

----------------------------------------------------------------------------
(* NucleiLogos.process (logos.py)                                           *)

\* len(frames): one frame, two (the first action turn), more than two
FrameCounts == {1, 2, 3}

\* the confidence_adjustment of a parsed response
Adjustments == {-3000, 0, 3000}

\* What the generate_text_sync call of a process() call does: it is not made,
\* it raises, or it returns a response with a confidence adjustment.
NoCall == [called |-> FALSE, raises |-> FALSE, confidence_adjustment |-> 0]
Raises == [called |-> TRUE, raises |-> TRUE, confidence_adjustment |-> 0]
Response(adjustment) ==
    [called |-> TRUE, raises |-> FALSE, confidence_adjustment |-> adjustment]

GeminiCalls == {NoCall, Raises} \cup {Response(a) : a \in Adjustments}

LogosCall(frames, progress_type, gemini) ==
    [frames |-> frames, progress_type |-> progress_type, gemini |-> gemini]

\* n calls after the first action turn with a progress type and an adjustment
Turns(n, progress_type, adjustment) ==
    [i \in 1..n |-> LogosCall(3, progress_type, Response(adjustment))]

FirstTurns ==
    <<LogosCall(1, "FIRST_TURN", Response(0)), LogosCall(2, "FIRST_TURN", NoCall)>>

\* The calls an exploration starts with: none; the first turns and five actions
\* without effect; progress the responses confirm, up to a confident engine;
\* progress and then a run of actions without effect; a long run of valid
\* actions that tires the curiosity; a run of actions without effect long enough
\* for the frustration to reach 1.0.
LogosScripts ==
    { <<>>,
      FirstTurns \o Turns(5, "NO_EFFECT", 0),
      FirstTurns \o Turns(16, "NO_EFFECT", 0),
      FirstTurns \o Turns(3, "MAJOR_PROGRESS", 3000),
      FirstTurns \o Turns(2, "MAJOR_PROGRESS", 3000) \o Turns(4, "NO_EFFECT", 0),
      FirstTurns \o Turns(1, "MINOR_PROGRESS", 0) \o Turns(20, "VALID_ACTION", 0) }

\* the direct adjustment of the confidence by the parsed response
AdjustConfidence(p, confidence_adjustment) ==
    IF confidence_adjustment # 0
    THEN [p EXCEPT !.confidence = Clamp01(@ + confidence_adjustment)]
    ELSE p

\* whether process() calls update_psychology
Updates(frames) == last_frame_data /\ frames > 2

IdealState(ideal, current) == [ideal |-> ideal, current |-> current]

InitLogos ==
    /\ psychology = FreshPsychology
    /\ last_frame_data = FALSE
    /\ logos_result = "none"
    /\ ideal_states = <<>>
    /\ logos_calls = 0
    /\ logos_script \in LogosScripts
    /\ logos_horizon = Len(logos_script) + MaxLogosTurns

\* One process() call.  progress_type is what _detect_progress returns when it is
\* called, gemini what the generate_text_sync call does when it is made.
LogosProcess(frames, progress_type, gemini) ==
    /\ logos_calls < logos_horizon
    /\ logos_script # <<>> => LogosCall(frames, progress_type, gemini) = Head(logos_script)
    /\ IF Updates(frames)
       THEN progress_type \in ProgressTypes
       ELSE progress_type = "FIRST_TURN"
    /\ gemini.called <=> frames # 2
    /\ \E past \in SUBSET (IF Updates(frames)
                           THEN AtThreshold(BeforeTransition(psychology, progress_type, 0))
                           ELSE {}) :
          /\ psychology' =
                 AdjustConfidence(
                     IF Updates(frames)
                     THEN update_psychology(psychology, progress_type, 0, past)
                     ELSE psychology,
                     gemini.confidence_adjustment)
          /\ ideal_states' =
                 IF Updates(frames)
                 THEN Last3(Append(ideal_states,
                          IdealState(_calculate_ideal_state(
                                         BeforeTransition(psychology, progress_type, 0),
                                         past),
                                     psychology.current_state)))
                 ELSE ideal_states
    /\ last_frame_data' = TRUE
    /\ logos_result' = IF gemini.raises THEN "raised" ELSE "actions"
    /\ logos_calls' = logos_calls + 1
    /\ logos_script' = IF logos_script = <<>> THEN logos_script ELSE Tail(logos_script)
    /\ UNCHANGED logos_horizon

\* One update_psychology call with a confidence adjustment as its argument,
\* once the calls of the script are made.
UpdatePsychology(progress_type, confidence_adjustment) ==
    /\ logos_calls < logos_horizon
    /\ logos_script = <<>>
    /\ \E past \in SUBSET AtThreshold(BeforeTransition(psychology, progress_type,
                                                       confidence_adjustment)) :
          /\ psychology' = update_psychology(psychology, progress_type,
                                             confidence_adjustment, past)
          /\ ideal_states' =
                 Last3(Append(ideal_states,
                     IdealState(_calculate_ideal_state(
                                    BeforeTransition(psychology, progress_type,
                                                     confidence_adjustment),
                                    past),
                                psychology.current_state)))
    /\ logos_calls' = logos_calls + 1
    /\ UNCHANGED <<last_frame_data, logos_result, logos_script, logos_horizon>>

NextLogos ==
    \/ \E frames \in FrameCounts, progress_type \in ProgressTypes \cup {"FIRST_TURN"},
          gemini \in GeminiCalls :
           LogosProcess(frames, progress_type, gemini)
    \/ \E progress_type \in ProgressTypes, confidence_adjustment \in Adjustments :
           UpdatePsychology(progress_type, confidence_adjustment)

\* NucleiLogos after __init__, with no call to come
IdleLogos ==
    /\ psychology = FreshPsychology
    /\ last_frame_data = FALSE
    /\ logos_result = "none"
    /\ ideal_states = <<>>
    /\ logos_calls = 0
    /\ logos_script = <<>>
    /\ logos_horizon = 0

----------------------------------------------------------------------------
(* The associative memory: AdvancedSharedMemory (shared_memory.py)          *)
(*                                                                          *)
(* Time is counted in ticks of the cleanup interval (300 s), so an hour is  *)
(* 12 ticks.  The removal score of _manage_memory_size is kept times 120:   *)
(* age_hours * 0.1 is one per tick, usage_count * 0.2 is 24 per use and the *)
(* success bonus of 0.5 is 60.  The scores of get_relevant_experience are   *)
(* kept in ten-thousandths.  A context is the sequence of its words, in     *)
(* lower case and without punctuation.  Records are compared by identity    *)
(* (the id): no two records of the code share a timestamp.                  *)

max_experiences == 3       \* self.max_experiences, 200 in the code
MaxMemorySteps == 2

TicksPerHour == 12

FirstN(s, n) == IF Len(s) <= n THEN s ELSE SubSeq(s, 1, n)

ToSet(s) == {s[i] : i \in 1..Len(s)}

\* the number of entries of a sequence that satisfy a test
CountOf(s, Test(_)) == Cardinality({i \in 1..Len(s) : Test(s[i])})

stopwords ==
    {"the", "a", "an", "and", "or", "but", "in", "on", "at", "to", "for", "of",
     "with", "by", "is", "are", "was", "were", "been", "be", "have", "has", "had"}

\* of the first 10 words, the first 5 that have 3 letters or more and are no stopword
_extract_keywords(text) ==
    FirstN(SelectSeq(FirstN(text, 10), LAMBDA w : Len(w) >= 3 /\ w \notin stopwords), 5)

\* a similarity that counts the keywords two lists have at the same place
_calculate_keyword_similarity_Positional(keywords1, keywords2) ==
    IF keywords1 = <<>> \/ keywords2 = <<>> THEN <<0, 1>>
    ELSE <<Cardinality({i \in 1..Min(Len(keywords1), Len(keywords2)) :
                           keywords1[i] = keywords2[i]}),
           Max(Len(keywords1), Len(keywords2))>>

\* the Jaccard similarity of two keyword lists, as the fraction <<intersection, union>>
_calculate_keyword_similarity(keywords1, keywords2) ==
    IF keywords1 = <<>> \/ keywords2 = <<>> THEN <<0, 1>>
    ELSE <<Cardinality(ToSet(keywords1) \cap ToSet(keywords2)),
           Cardinality(ToSet(keywords1) \cup ToSet(keywords2))>>

SimilarityGreater(a, b) == a[1] * b[2] > b[1] * a[2]

\* similarity >= self.clustering_threshold (0.6)
ReachesThreshold(similarity) == 10 * similarity[1] >= 6 * similarity[2]

\* a similarity in ten-thousandths
SimilarityValue(similarity) == RoundDiv(10000 * similarity[1], similarity[2])

\* a MemoryExperience as remember_success and remember_failure construct it
MemoryExperience(id, context, action, success, timestamp, turn_number) ==
    [id                 |-> id,
     context            |-> context,
     action             |-> action,
     success            |-> success,
     timestamp          |-> timestamp,
     turn_number        |-> turn_number,
     similarity_cluster |-> -1,
     usage_count        |-> 0,
     last_accessed      |-> 0]

\* a record as a member of a cluster's list: the fields update_metrics reads
Member(experience) ==
    [id |-> experience.id, success |-> experience.success,
     timestamp |-> experience.timestamp]

\* the memory after __init__ at a time
FreshMemory(now) ==
    [experiences          |-> <<>>,
     experience_clusters  |-> <<>>,
     next_cluster_id      |-> 0,
     keyword_frequency    |-> <<>>,
     action_success_rates |-> <<>>,
     context_patterns     |-> <<>>,
     current_turn         |-> 0,
     last_cleanup         |-> now]

\* ExperienceCluster.update_metrics
update_metrics(cluster, now) ==
    IF cluster.experiences = <<>>
    THEN [cluster EXCEPT !.success_rate = 5000, !.confidence = 0]
    ELSE [cluster EXCEPT
            !.success_rate =
                RoundDiv(10000 * CountOf(cluster.experiences, LAMBDA e : e.success),
                         Len(cluster.experiences)),
            !.confidence =
                Min(10000,
                    1000 * Len(cluster.experiences)
                    + 2000 * CountOf(cluster.experiences,
                                     LAMBDA e : now - e.timestamp < 24 * TicksPerHour)),
            !.last_updated = now]

\* the clusters a keyword list may join
Candidates(clusters, keywords) ==
    {i \in 1..Len(clusters) :
        ReachesThreshold(_calculate_keyword_similarity(keywords,
                                                       clusters[i].center_keywords))}

\* mutant: the first candidate, whatever its similarity
BestCluster_FirstCandidate(clusters, keywords) ==
    IF Candidates(clusters, keywords) = {} THEN 0
    ELSE CHOOSE i \in Candidates(clusters, keywords) :
            \A j \in Candidates(clusters, keywords) : i <= j

\* the first of the candidates of the highest similarity, 0 if there is none
BestCluster(clusters, keywords) ==
    IF Candidates(clusters, keywords) = {} THEN 0
    ELSE CHOOSE i \in Candidates(clusters, keywords) :
            \A j \in Candidates(clusters, keywords) :
                LET si == _calculate_keyword_similarity(keywords, clusters[i].center_keywords)
                    sj == _calculate_keyword_similarity(keywords, clusters[j].center_keywords)
                IN  \/ SimilarityGreater(si, sj)
                    \/ ~SimilarityGreater(sj, si) /\ i <= j

\* the cluster id _find_or_create_cluster returns
AssignedCluster(m, experience) ==
    IF BestCluster(m.experience_clusters, _extract_keywords(experience.context)) = 0
    THEN m.next_cluster_id
    ELSE m.experience_clusters[
             BestCluster(m.experience_clusters,
                         _extract_keywords(experience.context))].cluster_id

ExperienceCluster(cluster_id, center_keywords, experience, now) ==
    [cluster_id      |-> cluster_id,
     center_keywords |-> center_keywords,
     experiences     |-> <<Member(experience)>>,
     success_rate    |-> IF experience.success THEN 10000 ELSE 0,
     last_updated    |-> now,
     confidence      |-> 1000]

\* the memory after _find_or_create_cluster
_find_or_create_cluster(m, experience, now) ==
    IF BestCluster(m.experience_clusters, _extract_keywords(experience.context)) = 0
    THEN [m EXCEPT
            !.experience_clusters =
                Append(@, ExperienceCluster(m.next_cluster_id,
                                            _extract_keywords(experience.context),
                                            experience, now)),
            !.next_cluster_id = @ + 1]
    ELSE [m EXCEPT
            !.experience_clusters[
                BestCluster(m.experience_clusters,
                            _extract_keywords(experience.context))] =
                update_metrics([@ EXCEPT !.experiences = Append(@, Member(experience))],
                               now)]

\* a dict of counters, lists or flags as the sequence of its <<key, value>> items
Keys(d) == {d[i][1] : i \in 1..Len(d)}
Get(d, key, default) ==
    IF key \in Keys(d) THEN d[CHOOSE i \in 1..Len(d) : d[i][1] = key][2] ELSE default
Put(d, key, value) ==
    IF key \in Keys(d)
    THEN [i \in 1..Len(d) |-> IF d[i][1] = key THEN <<key, value>> ELSE d[i]]
    ELSE Append(d, <<key, value>>)

RECURSIVE CountKeywords(_, _)
CountKeywords(frequency, keywords) ==
    IF keywords = <<>> THEN frequency
    ELSE CountKeywords(Put(frequency, Head(keywords),
                           Get(frequency, Head(keywords), 0) + 1),
                       Tail(keywords))

_update_keyword_frequency(m, context) ==
    [m EXCEPT !.keyword_frequency = CountKeywords(@, _extract_keywords(context))]

Last20(s) == IF Len(s) <= 20 THEN s ELSE SubSeq(s, Len(s) - 19, Len(s))

_update_action_success_rates(m, action, success) ==
    [m EXCEPT !.action_success_rates =
                  Put(@, action, Last20(Append(Get(@, action, <<>>), success)))]

_update_context_patterns(m, context, action) ==
    [m EXCEPT !.context_patterns =
                  Put(@, _extract_keywords(context),
                      Append(Get(@, _extract_keywords(context), <<>>), action))]

\* removal_score: age_penalty - usage_bonus - success_bonus
removal_score(exp, now) ==
    (now - exp.timestamp) - 24 * exp.usage_count - (IF exp.success THEN 60 ELSE 0)

Precedes_LowestFirst(experiences, j, i, now) ==
    \/ removal_score(experiences[j], now) < removal_score(experiences[i], now)
    \/ /\ removal_score(experiences[j], now) = removal_score(experiences[i], now)
       /\ j < i

\* whether record j comes before record i in removal_scores after the sort: the
\* highest score first, equal scores in the order of the list
Precedes(experiences, j, i, now) ==
    \/ removal_score(experiences[j], now) > removal_score(experiences[i], now)
    \/ /\ removal_score(experiences[j], now) = removal_score(experiences[i], now)
       /\ j < i

\* the indices of the first to_remove entries of the sorted removal_scores
indices_to_remove(experiences, now) ==
    {i \in 1..Len(experiences) :
        Cardinality({j \in 1..Len(experiences) : Precedes(experiences, j, i, now)})
            < Len(experiences) - max_experiences}

RemoveIndices(s, indices) ==
    [k \in 1..(Len(s) - Cardinality(indices \cap (1..Len(s)))) |->
        s[CHOOSE i \in (1..Len(s)) \ indices :
              Cardinality((1..i) \ indices) = k]]

\* list.remove: without the first entry of an id
RemoveMember(members, id) ==
    RemoveIndices(members,
                  {i \in 1..Len(members) :
                      /\ members[i].id = id
                      /\ \A j \in 1..(i - 1) : members[j].id # id})

\* mutant: the record is left in its cluster
RemoveFromCluster_Keeps(clusters, exp, now) == clusters

\* a record removed from its cluster, if the cluster is there and holds it
RemoveFromCluster(clusters, exp, now) ==
    [c \in 1..Len(clusters) |->
        IF /\ exp.similarity_cluster # -1
           /\ clusters[c].cluster_id = exp.similarity_cluster
           /\ \E k \in 1..Len(clusters[c].experiences) :
                  clusters[c].experiences[k].id = exp.id
        THEN update_metrics([clusters[c] EXCEPT
                                !.experiences = RemoveMember(@, exp.id)], now)
        ELSE clusters[c]]

RECURSIVE RemoveAllFromClusters(_, _, _)
RemoveAllFromClusters(clusters, removed, now) ==
    IF removed = <<>> THEN clusters
    ELSE RemoveAllFromClusters(RemoveFromCluster(clusters, Head(removed), now),
                               Tail(removed), now)

\* the records of the given indices, in the order of the list
AtIndices(s, indices) ==
    RemoveIndices(s, (1..Len(s)) \ indices)

WithinCapacity_OneMore(size) == size <= max_experiences + 1

\* len(self.experiences) <= self.max_experiences
WithinCapacity(size) == size <= max_experiences

_manage_memory_size(m, now) ==
    IF WithinCapacity(Len(m.experiences)) THEN m
    ELSE [m EXCEPT
            !.experience_clusters =
                RemoveAllFromClusters(@,
                    AtIndices(m.experiences, indices_to_remove(m.experiences, now)),
                    now),
            !.experiences = RemoveIndices(@, indices_to_remove(m.experiences, now))]

\* now - self.last_cleanup < self.cleanup_interval
CleanupDue(m, now) == ~(now - m.last_cleanup < 1)

_periodic_cleanup(m, now) ==
    IF ~CleanupDue(m, now) THEN m
    ELSE [m EXCEPT
            !.experience_clusters = SelectSeq(@, LAMBDA c : c.experiences # <<>>),
            !.keyword_frequency = SelectSeq(@, LAMBDA item : ~(item[2] < 2)),
            !.last_cleanup = now]

StoreExperience_Reclusters(m, experience, cluster_id) ==
    [m EXCEPT !.experiences =
                  Append([i \in 1..Len(@) |-> [@[i] EXCEPT !.similarity_cluster = cluster_id]],
                         [experience EXCEPT !.similarity_cluster = cluster_id])]

\* the record with its cluster id, appended to the list
StoreExperience(m, experience, cluster_id) ==
    [m EXCEPT !.experiences =
                  Append(@, [experience EXCEPT !.similarity_cluster = cluster_id])]

_add_experience(m, experience, now) ==
    _periodic_cleanup(
        _manage_memory_size(
            _update_keyword_frequency(
                StoreExperience(_find_or_create_cluster(m, experience, now),
                                experience, AssignedCluster(m, experience)),
                experience.context),
            now),
        now)

\* the memory before _manage_memory_size in _add_experience
BeforeEviction(m, experience, now) ==
    _update_keyword_frequency(
        StoreExperience(_find_or_create_cluster(m, experience, now),
                        experience, AssignedCluster(m, experience)),
        experience.context)

remember_success(m, id, context, action, now) ==
    _update_context_patterns(
        _update_action_success_rates(
            _add_experience(m, MemoryExperience(id, context, action, TRUE, now,
                                                m.current_turn), now),
            action, TRUE),
        context, action)

\* f"FAILURE: {context}"
FailureContext(context) == <<"failure">> \o context

remember_failure(m, id, context, action, now) ==
    _update_action_success_rates(
        _add_experience(m, MemoryExperience(id, FailureContext(context), action, FALSE,
                                            now, m.current_turn), now),
        action, FALSE)

\* 1.0 / math.log(frequency + 1) in ten-thousandths
InverseLog(frequency) ==
    IF frequency <= 20
    THEN <<14427, 9102, 7213, 6213, 5581, 5139, 4809, 4551, 4343, 4170,
           4024, 3899, 3789, 3693, 3607, 3530, 3460, 3396, 3338, 3285>>[frequency]
    ELSE 3285

rarity_boost(m, exp_keywords, current_keywords) ==
    10000 + SumSeq([i \in 1..Len(current_keywords) |->
                       IF current_keywords[i] \in ToSet(exp_keywords)
                       THEN InverseLog(Get(m.keyword_frequency, current_keywords[i], 1))
                       ELSE 0])

_calculate_contextual_relevance(m, experience, current_keywords) ==
    RoundDiv(
        SimilarityValue(_calculate_keyword_similarity(
                            current_keywords, _extract_keywords(experience.context)))
        * Min(20000, rarity_boost(m, _extract_keywords(experience.context),
                                  current_keywords)),
        10000)

\* 0.95 ** n for a whole n
RECURSIVE Pow95(_)
Pow95(n) == IF n <= 0 THEN 10000 ELSE RoundDiv(Pow95(n - 1) * 95, 100)

\* self.temporal_decay_factor ** age_hours, the age being in ticks
time_weight(age) ==
    RoundDiv(Pow95(age \div TicksPerHour)
             * <<10000, 9957, 9915, 9873, 9830, 9789, 9747, 9705, 9664, 9623,
                 9582, 9541>>[(age % TicksPerHour) + 1],
             10000)

_calculate_temporal_weight(m, experience, now) ==
    RoundDiv(time_weight(now - experience.timestamp)
             + Pow95(Max(0, m.current_turn - experience.turn_number)), 2)

_calculate_cluster_weight(m, experience) ==
    IF experience.similarity_cluster = -1
       \/ \A c \in 1..Len(m.experience_clusters) :
              m.experience_clusters[c].cluster_id # experience.similarity_cluster
    THEN 5000
    ELSE LET cluster == m.experience_clusters[
                            CHOOSE c \in 1..Len(m.experience_clusters) :
                                m.experience_clusters[c].cluster_id
                                    = experience.similarity_cluster]
         IN  RoundDiv(7 * cluster.success_rate + 3 * cluster.confidence, 10)

\* final_score, times ten
final_score(m, experience, current_keywords, now) ==
    5 * _calculate_contextual_relevance(m, experience, current_keywords)
    + 3 * _calculate_temporal_weight(m, experience, now)
    + 2 * _calculate_cluster_weight(m, experience)

\* the indices of scored_experiences: final_score > 0.1
scored_experiences(m, current_keywords, now) ==
    {i \in 1..Len(m.experiences) :
        final_score(m, m.experiences[i], current_keywords, now) > 10000}

\* the indices of top_experiences: the first `limit' of scored_experiences sorted
\* by the score, the highest first.  Of two records whose scores are equal here
\* the later one comes first: its timestamp is later within the tick, so its
\* temporal weight is higher.
top_experiences(m, current_keywords, limit, now) ==
    {i \in scored_experiences(m, current_keywords, now) :
        Cardinality({j \in scored_experiences(m, current_keywords, now) :
            \/ final_score(m, m.experiences[j], current_keywords, now)
                   > final_score(m, m.experiences[i], current_keywords, now)
            \/ /\ final_score(m, m.experiences[j], current_keywords, now)
                      = final_score(m, m.experiences[i], current_keywords, now)
               /\ j > i}) < limit}

\* the memory after get_relevant_experience
get_relevant_experience(m, current_context, limit, now) ==
    IF current_context = <<>> \/ m.experiences = <<>> THEN m
    ELSE [m EXCEPT !.experiences =
            [i \in 1..Len(m.experiences) |->
                IF i \in top_experiences(m, _extract_keywords(current_context), limit, now)
                THEN [m.experiences[i] EXCEPT !.last_accessed = now,
                                              !.usage_count = @ + 1]
                ELSE m.experiences[i]]]

set_current_turn(m, turn_number) == [m EXCEPT !.current_turn = turn_number]

----------------------------------------------------------------------------
(* The calls made to the memory                                             *)

\* "key press near door", "the player is at the wall"
Door == <<"key", "press", "near", "door">>
Wall == <<"the", "player", "is", "at", "the", "wall">>

\* "key door": as a failure, 0.4 like Door and 0.6 like the failure of Door
KeyDoor == <<"key", "door">>
\* "is at": stopwords and short words only, no keyword
IsAt == <<"is", "at">>

Contexts == {Door, Wall, KeyDoor, IsAt}

\* "door key", "wall"
Queries == { <<"door", "key">>, <<"wall">> }

MemoryActions == {"space", "up"}

\* the limit of get_relevant_experience: one record, the default of 5
Limits == {1, 5}

\* the time that passes between two calls: 5 minutes, almost 6 hours
Elapsed == {1, 70}

TurnNumbers == {3}

MemoryCall(op, context, action, n) ==
    [op |-> op, context |-> context, action |-> action, n |-> n]

Success(context, action) == MemoryCall("remember_success", context, action, 0)
Failure(context, action) == MemoryCall("remember_failure", context, action, 0)
Query(context, limit) == MemoryCall("get_relevant_experience", context, "", limit)
Wait(ticks) == MemoryCall("time", <<>>, "", ticks)
Turn(turn_number) == MemoryCall("set_current_turn", <<>>, "", turn_number)

\* The calls an exploration starts with: none; successes up to the capacity;
\* failures, one of them used, and time passing; a success grown old among
\* younger failures; a used success, an old failure and a young one; a success
\* left alone for almost six hours; two clusters a third record is similar to,
\* the later one more; records without a keyword.
MemoryScripts ==
    { <<>>,
      <<Success(Door, "space"), Wait(70)>>,
      <<Success(Door, "space"), Success(Wall, "up"), Success(Door, "space")>>,
      <<Failure(Door, "space"), Wait(1), Failure(Wall, "up"),
        Query(<<"wall">>, 1), Wait(70), Failure(Door, "up")>>,
      <<Success(Door, "space"), Wait(70), Failure(Wall, "up"), Wait(1),
        Failure(Door, "space")>>,
      <<Success(Door, "space"), Query(<<"door", "key">>, 5), Failure(Wall, "up"),
        Wait(70), Turn(3), Failure(Wall, "space")>>,
      <<Failure(KeyDoor, "space"), Success(Door, "space"), Failure(Door, "space")>>,
      <<Success(IsAt, "up"), Success(IsAt, "up")>> }

\* what the latest call inserted and evicted: nothing
NoInsertion == [id |-> -1, size |-> 0, evicted |-> {}, keywords |-> <<>>, cluster |-> -1]

\* what a remember call inserts and evicts: the keywords of the record and the
\* cluster id _find_or_create_cluster returned for it; the size is the one of
\* the list before _manage_memory_size
Insertion(m, experience, now) ==
    [id       |-> experience.id,
     keywords |-> _extract_keywords(experience.context),
     cluster  |-> AssignedCluster(m, experience),
     size     |-> Len(BeforeEviction(m, experience, now).experiences),
     evicted  |-> ToSet(BeforeEviction(m, experience, now).experiences)
                  \ ToSet(_manage_memory_size(BeforeEviction(m, experience, now),
                                              now).experiences)]

\* what the latest call was asked for and returned: nothing
NoQuery == [context |-> <<>>, limit |-> 0, returned |-> <<>>]

\* the indices `among', the one of the highest score first
RECURSIVE Ranked(_, _, _, _)
Ranked(m, among, current_keywords, now) ==
    IF among = {} THEN <<>>
    ELSE LET first == CHOOSE i \in among :
                          \A j \in among \ {i} :
                              \/ final_score(m, m.experiences[i], current_keywords, now)
                                     > final_score(m, m.experiences[j], current_keywords, now)
                              \/ /\ final_score(m, m.experiences[i], current_keywords, now)
                                        = final_score(m, m.experiences[j], current_keywords, now)
                                 /\ i > j
         IN  <<first>> \o Ranked(m, among \ {first}, current_keywords, now)

\* what get_relevant_experience returns: the records of top_experiences as
\* they are before the call marks them, the best first; none for the empty
\* string
Returned(m, current_context, limit, now) ==
    IF current_context = <<>> \/ m.experiences = <<>> THEN <<>>
    ELSE LET ranked == Ranked(m, top_experiences(m, _extract_keywords(current_context),
                                                 limit, now),
                              _extract_keywords(current_context), now)
         IN  [k \in 1..Len(ranked) |-> m.experiences[ranked[k]]]

InitMemory ==
    /\ memory = FreshMemory(0)
    /\ clock = 0
    /\ inserted = 0
    /\ last_insertion = NoInsertion
    /\ last_query = NoQuery
    /\ memory_steps = 0
    /\ memory_script \in MemoryScripts
    /\ memory_horizon = Len(memory_script) + MaxMemorySteps

\* the memory after __init__, with no call to come
IdleMemory ==
    /\ memory = FreshMemory(0)
    /\ clock = 0
    /\ inserted = 0
    /\ last_insertion = NoInsertion
    /\ last_query = NoQuery
    /\ memory_steps = 0
    /\ memory_script = <<>>
    /\ memory_horizon = 0

\* a step of the exploration: while the script lasts, the call it gives
MemoryStep(call) ==
    /\ memory_steps < memory_horizon
    /\ memory_script # <<>> => call = Head(memory_script)
    /\ memory_steps' = memory_steps + 1
    /\ memory_script' = IF memory_script = <<>> THEN memory_script
                        ELSE Tail(memory_script)
    /\ UNCHANGED memory_horizon

RememberSuccess(context, action) ==
    /\ MemoryStep(Success(context, action))
    /\ memory' = remember_success(memory, inserted, context, action, clock)
    /\ last_insertion' =
           Insertion(memory, MemoryExperience(inserted, context, action, TRUE, clock,
                                              memory.current_turn), clock)
    /\ inserted' = inserted + 1
    /\ last_query' = NoQuery
    /\ UNCHANGED clock

RememberFailure(context, action) ==
    /\ MemoryStep(Failure(context, action))
    /\ memory' = remember_failure(memory, inserted, context, action, clock)
    /\ last_insertion' =
           Insertion(memory, MemoryExperience(inserted, FailureContext(context), action,
                                              FALSE, clock, memory.current_turn), clock)
    /\ inserted' = inserted + 1
    /\ last_query' = NoQuery
    /\ UNCHANGED clock

GetRelevantExperience(context, limit) ==
    /\ MemoryStep(Query(context, limit))
    /\ memory' = get_relevant_experience(memory, context, limit, clock)
    /\ last_insertion' = NoInsertion
    /\ last_query' = [context |-> context, limit |-> limit,
                      returned |-> Returned(memory, context, limit, clock)]
    /\ UNCHANGED <<clock, inserted>>

SetCurrentTurn(turn_number) ==
    /\ MemoryStep(Turn(turn_number))
    /\ memory' = set_current_turn(memory, turn_number)
    /\ last_insertion' = NoInsertion
    /\ last_query' = NoQuery
    /\ UNCHANGED <<clock, inserted>>

\* time.time() moves on between two calls
TimePasses(ticks) ==
    /\ MemoryStep(Wait(ticks))
    /\ clock' = clock + ticks
    /\ last_insertion' = NoInsertion
    /\ last_query' = NoQuery
    /\ UNCHANGED <<memory, inserted>>

NextMemory ==
    \/ \E context \in Contexts, action \in MemoryActions : RememberSuccess(context, action)
    \/ \E context \in Contexts, action \in MemoryActions : RememberFailure(context, action)
    \/ \E context \in Queries, limit \in Limits : GetRelevantExperience(context, limit)
    \/ \E turn_number \in TurnNumbers : SetCurrentTurn(turn_number)
    \/ \E ticks \in Elapsed : TimePasses(ticks)

----------------------------------------------------------------------------
(* The grid helpers: object detection and matching (aisthesis.py), pixel    *)
(* differences (matrix_difference_utils.py)                                  *)
(*                                                                          *)
(* A grid is the sequence of its rows, a row the sequence of its cells.  A   *)
(* position is the pair <<row, col>> the code uses, counted from 0.  Cell    *)
(* values are colour codes, far inside the int32 range the difference is     *)
(* computed in.                                                              *)

MaxColor == 2

Colors == 0..MaxColor

\* rows and columns of the frames
Shape == <<2, 3>>

Grids == [1..Shape[1] -> [1..Shape[2] -> Colors]]

Rows(matrix) == Len(matrix)
Cols(matrix) == Len(matrix[1])
Cell(matrix, position) == matrix[position[1] + 1][position[2] + 1]

\* the one element of a set of one element
Only(S) == CHOOSE x \in S : TRUE

\* range(shape[0]) x range(shape[1]) in row-major order
Cells(matrix) ==
    [k \in 1..(Rows(matrix) * Cols(matrix)) |->
        <<(k - 1) \div Cols(matrix), (k - 1) % Cols(matrix)>>]

COLOR_NAMES ==
    <<"white", "blue", "gray", "dark-gray", "darker-gray", "black", "brown",
      "light-gray", "red", "light-blue", "green", "yellow", "orange", "magenta",
      "light-green", "purple", "pink">>

\* COLOR_NAMES.get(color_value % 17, ...): the key is always there
ColorName(color_value) == COLOR_NAMES[(color_value % 17) + 1]

\* the test both flood fills make before they take a cell
Fillable(matrix, visited, position, target_color) ==
    /\ position[1] >= 0
    /\ position[1] < Rows(matrix)
    /\ position[2] >= 0
    /\ position[2] < Cols(matrix)
    /\ position \notin visited
    /\ Cell(matrix, position) = target_color

\* mutant: the neighbour to the right is not pushed
Neighbours_NotRight(position) ==
    << <<position[1] - 1, position[2]>>, <<position[1] + 1, position[2]>>,
       <<position[1], position[2] - 1>> >>

Neighbours_WithDiagonal(position) ==
    << <<position[1] - 1, position[2]>>, <<position[1] + 1, position[2]>>,
       <<position[1], position[2] - 1>>, <<position[1] + 1, position[2] + 1>> >>

Neighbours(position) ==
    << <<position[1] - 1, position[2]>>, <<position[1] + 1, position[2]>>,
       <<position[1], position[2] - 1>>, <<position[1], position[2] + 1>> >>

Filled(positions, visited) == [positions |-> positions, visited |-> visited]

\* the while loop of _flood_fill: pop a cell, skip it or take it and push its
\* four neighbours
RECURSIVE FloodStack(_, _, _, _, _)
FloodStack(matrix, visited, stack, positions, target_color) ==
    IF stack = <<>>
    THEN Filled(positions, visited)
    ELSE Only({ IF Fillable(matrix, visited, cell, target_color)
                THEN FloodStack(matrix, visited \cup {cell},
                                SubSeq(stack, 1, Len(stack) - 1) \o Neighbours(cell),
                                Append(positions, cell), target_color)
                ELSE FloodStack(matrix, visited, SubSeq(stack, 1, Len(stack) - 1),
                                positions, target_color)
                : cell \in {stack[Len(stack)]} })

\* the positions of the component, and visited as the call leaves it
_flood_fill(matrix, visited, start_row, start_col, target_color) ==
    IF ~Fillable(matrix, visited, <<start_row, start_col>>, target_color)
    THEN Filled(<<>>, visited)
    ELSE FloodStack(matrix, visited, << <<start_row, start_col>> >>, <<>>, target_color)

MinOf(S) == CHOOSE x \in S : \A y \in S : x <= y
MaxOf(S) == CHOOSE x \in S : \A y \in S : x >= y

\* (min_row, max_row, min_col, max_col)
Bounds(positions) ==
    << MinOf({positions[i][1] : i \in 1..Len(positions)}),
       MaxOf({positions[i][1] : i \in 1..Len(positions)}),
       MinOf({positions[i][2] : i \in 1..Len(positions)}),
       MaxOf({positions[i][2] : i \in 1..Len(positions)}) >>

\* the shape text, as its name and the numbers formatted into it
\* a classification that knows no squares
ShapeOf_SquareIsRectangle(size, width, height) ==
    IF size = 1 THEN <<"pixel", 0, 0>>
    ELSE IF width = 1 THEN <<"vertical-line", height, 0>>
    ELSE IF height = 1 THEN <<"horizontal-line", width, 0>>
    ELSE IF size = width * height THEN <<"rectangle", width, height>>
    ELSE <<"complex", size, 0>>

ShapeOf(size, width, height) ==
    IF size = 1 THEN <<"pixel", 0, 0>>
    ELSE IF width = 1 THEN <<"vertical-line", height, 0>>
    ELSE IF height = 1 THEN <<"horizontal-line", width, 0>>
    ELSE IF size = width * height
         THEN IF width = height THEN <<"square", width, height>>
              ELSE <<"rectangle", width, height>>
    ELSE <<"complex", size, 0>>

REGION_BOUNDS ==
    << <<"top-left", 0, 21, 0, 21>>, <<"top-center", 0, 21, 21, 43>>,
       <<"top-right", 0, 21, 43, 64>>, <<"center-left", 21, 43, 0, 21>>,
       <<"center", 21, 43, 21, 43>>, <<"center-right", 21, 43, 43, 64>>,
       <<"bottom-left", 43, 64, 0, 21>>, <<"bottom-center", 43, 64, 21, 43>>,
       <<"bottom-right", 43, 64, 43, 64>> >>

InRegion(region, row, col) ==
    region[2] <= row /\ row < region[3] /\ region[4] <= col /\ col < region[5]

_get_region_for_position(row, col) ==
    IF \E i \in 1..Len(REGION_BOUNDS) : InRegion(REGION_BOUNDS[i], row, col)
    THEN REGION_BOUNDS[CHOOSE i \in 1..Len(REGION_BOUNDS) :
                          /\ InRegion(REGION_BOUNDS[i], row, col)
                          /\ \A j \in 1..(i - 1) : ~InRegion(REGION_BOUNDS[j], row, col)][1]
    ELSE "unknown"

ObjectInfo(object_id, positions, color_value, bounds) ==
    [ object_id |-> <<"OBJ", object_id>>,
      shape     |-> ShapeOf(Len(positions), bounds[4] - bounds[3] + 1,
                            bounds[2] - bounds[1] + 1),
      color     |-> ColorName(color_value),
      positions |-> positions,
      bounds    |-> bounds,
      region    |-> _get_region_for_position((bounds[1] + bounds[2]) \div 2,
                                             (bounds[3] + bounds[4]) \div 2),
      size      |-> Len(positions) ]

_create_object_info(positions, color_value, object_id) ==
    ObjectInfo(object_id, positions, color_value, Bounds(positions))

\* The scan of _detect_objects_in_matrix from the k-th cell on.  object_counter
\* is one more than the number of objects found.
RECURSIVE DetectFrom(_, _, _, _)
DetectFrom(matrix, k, visited, objects) ==
    IF k > Len(Cells(matrix))
    THEN objects
    ELSE IF Cells(matrix)[k] \notin visited /\ Cell(matrix, Cells(matrix)[k]) # 0
    THEN Only({ DetectFrom(matrix, k + 1, filled.visited,
                    IF filled.positions # <<>>
                    THEN Append(objects,
                             _create_object_info(filled.positions,
                                 Cell(matrix, Cells(matrix)[k]), Len(objects) + 1))
                    ELSE objects)
                : filled \in {_flood_fill(matrix, visited, Cells(matrix)[k][1],
                                          Cells(matrix)[k][2],
                                          Cell(matrix, Cells(matrix)[k]))} })
    ELSE DetectFrom(matrix, k + 1, visited, objects)

_detect_objects_in_matrix(matrix) == DetectFrom(matrix, 1, {}, <<>>)

\* tuple order of two positions
PositionBefore(p, q) == p[1] < q[1] \/ (p[1] = q[1] /\ p[2] < q[2])

\* sorted(positions), for positions that differ from each other
SortedPositions(positions) ==
    [k \in 1..Len(positions) |->
        CHOOSE p \in ToSet(positions) :
            Cardinality({q \in ToSet(positions) : PositionBefore(q, p)}) = k - 1]

\* the signature text, as the values formatted into it
object_signature_ColorAndShape(obj) == <<obj.color, obj.shape, <<>>>>

object_signature(obj) == <<obj.color, obj.shape, SortedPositions(obj.positions)>>

\* {object_signature(obj): obj for obj in objects}
RECURSIVE Signatures(_, _)
Signatures(objects, dict) ==
    IF objects = <<>> THEN dict
    ELSE Signatures(Tail(objects), Put(dict, object_signature(Head(objects)), Head(objects)))

Comparison(changed_objects, unchanged_objects) ==
    [changed_objects |-> changed_objects, unchanged_objects |-> unchanged_objects]

\* values of the first dict by whether their key is in the second
InBoth(first, second) == SelectSeq(first, LAMBDA entry : entry[1] \in Keys(second))
OnlyIn(first, second) == SelectSeq(first, LAMBDA entry : entry[1] \notin Keys(second))

Values(dict) == [i \in 1..Len(dict) |-> dict[i][2]]

CompareSignatures(before_signatures, after_signatures) ==
    Comparison(
        Values(OnlyIn(before_signatures, after_signatures))
            \o Values(OnlyIn(after_signatures, before_signatures)),
        [i \in 1..Len(InBoth(before_signatures, after_signatures)) |->
            Get(after_signatures, InBoth(before_signatures, after_signatures)[i][1], <<>>)])

_compare_objects(objects_before, objects_after) ==
    CompareSignatures(Signatures(objects_before, <<>>), Signatures(objects_after, <<>>))

----------------------------------------------------------------------------
(* matrix_difference_utils.py *)

\* the while loop of _flood_fill_simple
RECURSIVE SimpleFloodStack(_, _, _, _, _)
SimpleFloodStack(matrix, visited, stack, positions, target_color) ==
    IF stack = <<>>
    THEN Filled(positions, visited)
    ELSE Only({ IF Fillable(matrix, visited, cell, target_color)
                THEN SimpleFloodStack(matrix, visited \cup {cell},
                                SubSeq(stack, 1, Len(stack) - 1) \o Neighbours(cell),
                                Append(positions, cell), target_color)
                ELSE SimpleFloodStack(matrix, visited, SubSeq(stack, 1, Len(stack) - 1),
                                positions, target_color)
                : cell \in {stack[Len(stack)]} })

_flood_fill_simple(matrix, visited, start_row, start_col, target_color) ==
    IF ~Fillable(matrix, visited, <<start_row, start_col>>, target_color)
    THEN Filled(<<>>, visited)
    ELSE SimpleFloodStack(matrix, visited, << <<start_row, start_col>> >>, <<>>,
                          target_color)

SimpleObject(object_counter, positions, color_value, bounds) ==
    [ id        |-> <<"OBJ", object_counter>>,
      color     |-> ColorName(color_value),
      positions |-> positions,
      size      |-> Len(positions),
      center    |-> <<(bounds[1] + bounds[2]) \div 2, (bounds[3] + bounds[4]) \div 2>>,
      bounds    |-> bounds ]

RECURSIVE DetectSimpleFrom(_, _, _, _)
DetectSimpleFrom(matrix, k, visited, objects) ==
    IF k > Len(Cells(matrix))
    THEN objects
    ELSE IF Cells(matrix)[k] \notin visited /\ Cell(matrix, Cells(matrix)[k]) # 0
    THEN Only({ DetectSimpleFrom(matrix, k + 1, filled.visited,
                    IF filled.positions # <<>>
                    THEN Append(objects,
                             SimpleObject(Len(objects) + 1, filled.positions,
                                 Cell(matrix, Cells(matrix)[k]),
                                 Bounds(filled.positions)))
                    ELSE objects)
                : filled \in {_flood_fill_simple(matrix, visited, Cells(matrix)[k][1],
                                                 Cells(matrix)[k][2],
                                                 Cell(matrix, Cells(matrix)[k]))} })
    ELSE DetectSimpleFrom(matrix, k + 1, visited, objects)

detect_simple_objects(matrix) == DetectSimpleFrom(matrix, 1, {}, <<>>)

\* object_signature of compare_objects: colour and sorted positions
simple_object_signature(obj) == <<obj.color, SortedPositions(obj.positions)>>

RECURSIVE SimpleSignatures(_, _)
SimpleSignatures(objects, dict) ==
    IF objects = <<>> THEN dict
    ELSE SimpleSignatures(Tail(objects),
             Put(dict, simple_object_signature(Head(objects)), Head(objects)))

compare_objects(objects_before, objects_after) ==
    CompareSignatures(SimpleSignatures(objects_before, <<>>),
                      SimpleSignatures(objects_after, <<>>))

\* before[:min_rows, :min_cols]
Crop(matrix, rows, cols) == [r \in 1..rows |-> SubSeq(matrix[r], 1, cols)]

Subtract_AfterOnly(after, before) ==
    [r \in 1..Rows(after) |-> [c \in 1..Cols(after) |-> after[r][c]]]

\* after - before of two arrays of one shape
Subtract(after, before) ==
    [r \in 1..Rows(after) |-> [c \in 1..Cols(after) |-> after[r][c] - before[r][c]]]

\* two 2-D grids: of one shape, or cut to the rows and columns both have
calculate_matrix_difference(before, after) ==
    IF <<Rows(before), Cols(before)>> # <<Rows(after), Cols(after)>>
    THEN Subtract(Crop(after, Min(Rows(before), Rows(after)),
                              Min(Cols(before), Cols(after))),
                  Crop(before, Min(Rows(before), Rows(after)),
                               Min(Cols(before), Cols(after))))
    ELSE Subtract(after, before)

----------------------------------------------------------------------------
(* spatial_perception_module.py *)

\* np.zeros((64, 64), dtype=np.int32)
DefaultGrid == [r \in 1..64 |-> [c \in 1..64 |-> 0]]

\* the shape of np.array(matrix) for a list of rows of one length
ArrayShape(matrix) == <<Rows(matrix), Cols(matrix)>>

\* the shape after .squeeze(): the axes of length one are removed
squeeze(shape) == SelectSeq(shape, LAMBDA length : length # 1)

\* SpatialPerceptionModule._calculate_matrix_difference of two lists of rows:
\* both arrays are squeezed, whatever their number of axes
_calculate_matrix_difference(before, after) ==
    IF squeeze(ArrayShape(before)) # squeeze(ArrayShape(after))
    THEN IF Len(squeeze(ArrayShape(before))) = 2 /\ Len(squeeze(ArrayShape(after))) = 2
         THEN Subtract(Crop(after, Min(Rows(before), Rows(after)),
                                   Min(Cols(before), Cols(after))),
                       Crop(before, Min(Rows(before), Rows(after)),
                                    Min(Cols(before), Cols(after))))
         ELSE DefaultGrid
    ELSE IF Len(squeeze(ArrayShape(before))) # 2
         THEN DefaultGrid
         ELSE Subtract(after, before)

----------------------------------------------------------------------------
(* matrix_difference_utils.py, continued *)

\* list(zip(*np.where(difference_matrix != 0))): row-major order
NonZero(difference_matrix) ==
    SelectSeq(Cells(difference_matrix), LAMBDA p : Cell(difference_matrix, p) # 0)

ChangeType(before_val, after_val) ==
    IF before_val = 0 /\ after_val # 0 THEN "appearance"
    ELSE IF before_val # 0 /\ after_val = 0 THEN "disappearance"
    ELSE "transformation"

ChangeDetail(before, after, position) ==
    [ position |-> position,
      before   |-> ColorName(Cell(before, position)),
      after    |-> ColorName(Cell(after, position)),
      type     |-> ChangeType(Cell(before, position), Cell(after, position)) ]

ChangeDetails(before, after, change_positions) ==
    [i \in 1..Len(change_positions) |-> ChangeDetail(before, after, change_positions[i])]

CountType(change_details, type) ==
    Cardinality({i \in 1..Len(change_details) : change_details[i].type = type})

NoChanges ==
    [ has_changes     |-> FALSE,
      total_changes   |-> 0,
      change_positions |-> <<>>,
      appearances     |-> 0,
      disappearances  |-> 0,
      transformations |-> 0,
      change_details  |-> <<>> ]

Changes(before, after, difference_matrix, change_details, comparison) ==
    [ has_changes       |-> TRUE,
      total_changes     |-> Len(NonZero(difference_matrix)),
      change_positions  |-> NonZero(difference_matrix),
      appearances       |-> CountType(change_details, "appearance"),
      disappearances    |-> CountType(change_details, "disappearance"),
      transformations   |-> CountType(change_details, "transformation"),
      change_details    |-> change_details,
      difference_matrix |-> difference_matrix,
      objects_before    |-> detect_simple_objects(before),
      objects_after     |-> detect_simple_objects(after),
      changed_objects   |-> comparison.changed_objects,
      unchanged_objects |-> comparison.unchanged_objects ]

AnalyzeDifference(before, after, difference_matrix) ==
    IF NonZero(difference_matrix) = <<>>
    THEN NoChanges
    ELSE Changes(before, after, difference_matrix,
                 ChangeDetails(before, after, NonZero(difference_matrix)),
                 compare_objects(detect_simple_objects(before),
                                 detect_simple_objects(after)))

analyze_pixel_changes(before, after) ==
    AnalyzeDifference(before, after, calculate_matrix_difference(before, after))

----------------------------------------------------------------------------
(* spatial_perception_module.py: the objects.  detect_objects_in_matrix,     *)
(* _flood_fill, _create_object_info and _compare_objects are those of        *)
(* NucleiAisthesis but for the table of the colour names.                    *)

\* SpatialPerceptionModule.COLOR_NAMES: the keys 0..15; 1 and 9 have one name
SpatialColorNames ==
    <<"white", "blue", "gray", "dark-gray", "darker-gray", "black", "brown",
      "light-gray", "red", "blue", "green", "yellow", "orange", "magenta",
      "light-green", "purple">>

\* a table that names every colour code differently
SpatialColorName_Distinct(color_value) == <<"color", color_value % 16>>

\* COLOR_NAMES.get(color_value % 16, ...): the key is always there
SpatialColorName(color_value) == SpatialColorNames[(color_value % 16) + 1]

\* the colour code of the cells of an object of the matrix
ColorValue(matrix, obj) == Cell(matrix, obj.positions[1])

\* detect_objects_in_matrix
detect_objects_in_matrix(matrix) ==
    [i \in 1..Len(_detect_objects_in_matrix(matrix)) |->
        [_detect_objects_in_matrix(matrix)[i] EXCEPT
            !.color = SpatialColorName(ColorValue(matrix, _detect_objects_in_matrix(matrix)[i]))]]

----------------------------------------------------------------------------
(* The calls on the grids of two frames.  The helpers keep nothing between  *)
(* calls: each pair of grids is given to one of them.                       *)

\* the next colour code, the background after the last
NextColor(color_value) == (color_value + 1) % (MaxColor + 1)

SetCell(matrix, position, color_value) ==
    [matrix EXCEPT ![position[1] + 1][position[2] + 1] = color_value]

\* What a frame can be after the frame of a grid: the same grid, the grid with
\* one cell of another colour, the grid without its last row.
FramesAfter(matrix) ==
    {matrix}
    \cup {SetCell(matrix, Cells(matrix)[k], NextColor(Cell(matrix, Cells(matrix)[k])))
            : k \in 1..Len(Cells(matrix))}
    \cup {Crop(matrix, Rows(matrix) - 1, Cols(matrix))}

\* the 4x4 grid that is background but for a 2x2 block of dark-gray whose top
\* left cell is (corner, corner)
BlockGrid(corner) ==
    [row \in 1..4 |-> [col \in 1..4 |->
        IF row - 1 \in {corner, corner + 1} /\ col - 1 \in {corner, corner + 1}
        THEN 3 ELSE 0]]

BlockGrids == {BlockGrid(0), BlockGrid(2)}

\* the 2x3 grid that is background but for its middle column, of one colour
StripeGrid(color_value) ==
    [row \in 1..Shape[1] |-> [col \in 1..Shape[2] |-> IF col = 2 THEN color_value ELSE 0]]

\* a stripe of blue (1), of red (8), of the other blue (9)
StripeGrids == {StripeGrid(1), StripeGrid(8), StripeGrid(9)}

\* the frames of a step: a small grid and what an action makes of it, the
\* block before and after it is moved, or the stripe before and after it is
\* painted
InitGrid ==
    /\ \/ /\ matrix_before \in Grids
          /\ matrix_after \in FramesAfter(matrix_before)
       \/ /\ matrix_before \in BlockGrids
          /\ matrix_after \in BlockGrids \cup FramesAfter(matrix_before)
       \/ /\ matrix_before \in StripeGrids
          /\ matrix_after \in StripeGrids
    /\ grid_call = "none"
    /\ grid_result = <<>>

\* no frame yet
IdleGrid ==
    /\ matrix_before = <<>>
    /\ matrix_after = <<>>
    /\ grid_call = "none"
    /\ grid_result = <<>>

\* _detect_objects_in_matrix on the grid after the action
DetectObjects ==
    /\ grid_call = "none"
    /\ grid_call' = "_detect_objects_in_matrix"
    /\ grid_result' = _detect_objects_in_matrix(matrix_after)
    /\ UNCHANGED <<matrix_before, matrix_after>>

\* _compare_objects on the objects detected in the two grids
CompareObjects ==
    /\ grid_call = "none"
    /\ grid_call' = "_compare_objects"
    /\ grid_result' = _compare_objects(_detect_objects_in_matrix(matrix_before),
                                       _detect_objects_in_matrix(matrix_after))
    /\ UNCHANGED <<matrix_before, matrix_after>>

\* detect_simple_objects on the grid after the action
DetectSimpleObjects ==
    /\ grid_call = "none"
    /\ grid_call' = "detect_simple_objects"
    /\ grid_result' = detect_simple_objects(matrix_after)
    /\ UNCHANGED <<matrix_before, matrix_after>>

\* compare_objects on the objects detect_simple_objects finds in the two grids
CompareSimpleObjects ==
    /\ grid_call = "none"
    /\ grid_call' = "compare_objects"
    /\ grid_result' = compare_objects(detect_simple_objects(matrix_before),
                                      detect_simple_objects(matrix_after))
    /\ UNCHANGED <<matrix_before, matrix_after>>

\* SpatialPerceptionModule._compare_objects on the objects its
\* detect_objects_in_matrix finds in the two grids
SpatialCompareObjects ==
    /\ grid_call = "none"
    /\ grid_call' = "spatial_compare_objects"
    /\ grid_result' = _compare_objects(detect_objects_in_matrix(matrix_before),
                                       detect_objects_in_matrix(matrix_after))
    /\ UNCHANGED <<matrix_before, matrix_after>>

CalculateMatrixDifference ==
    /\ grid_call = "none"
    /\ grid_call' = "calculate_matrix_difference"
    /\ grid_result' = calculate_matrix_difference(matrix_before, matrix_after)
    /\ UNCHANGED <<matrix_before, matrix_after>>

\* SpatialPerceptionModule._calculate_matrix_difference, as analyze_action_effect
\* calls it on the grid saved before the action and the grid after it
SpatialMatrixDifference ==
    /\ grid_call = "none"
    /\ grid_call' = "_calculate_matrix_difference"
    /\ grid_result' = _calculate_matrix_difference(matrix_before, matrix_after)
    /\ UNCHANGED <<matrix_before, matrix_after>>

AnalyzePixelChanges ==
    /\ grid_call = "none"
    /\ grid_call' = "analyze_pixel_changes"
    /\ grid_result' = analyze_pixel_changes(matrix_before, matrix_after)
    /\ UNCHANGED <<matrix_before, matrix_after>>

NextGrid ==
    \/ DetectObjects
    \/ DetectSimpleObjects
    \/ CompareObjects
    \/ CompareSimpleObjects
    \/ SpatialCompareObjects
    \/ CalculateMatrixDifference
    \/ SpatialMatrixDifference
    \/ AnalyzePixelChanges
----------------------------------------------------------------------------
(* aisthesis.py: NucleiAisthesis.analyze_action_effect on the frames of the   *)
(* game.  A frame is its grid, its score and its state; the grids of the two  *)
(* latest frames are matrix_before and matrix_after.                           *)

\* the highest score the game reaches
MaxScore == 2

FrameData(score, state) == [score |-> score, state |-> state]

\* AisthesisStructuredData
AisthesisStructuredData(objects_before, objects_after, changed_objects, unchanged_objects, transformation_type, progress_detected, is_level_transition, clickable_coordinates) ==
    [objects_before        |-> objects_before,
     objects_after         |-> objects_after,
     changed_objects       |-> changed_objects,
     unchanged_objects     |-> unchanged_objects,
     transformation_type   |-> transformation_type,
     progress_detected     |-> progress_detected,
     is_level_transition   |-> is_level_transition,
     clickable_coordinates |-> clickable_coordinates]

\* no analysis of the latest frame yet
NoStructuredData ==
    AisthesisStructuredData(<<>>, <<>>, <<>>, <<>>, "none", FALSE, FALSE, <<>>)

\* sum(values) // len(values) over the rows or the columns of the positions
MeanOf(positions, axis) ==
    LET RECURSIVE Sum(_)
        Sum(k) == IF k = 0 THEN 0 ELSE positions[k][axis] + Sum(k - 1)
    IN  Sum(Len(positions)) \div Len(positions)

\* "blue" in obj.color.lower()
HasBlue(color) == color \in {"blue", "light-blue"}

_convert_to_structured_object(obj) ==
    [object_id |-> obj.object_id, shape |-> obj.shape, color |-> obj.color,
     positions |-> obj.positions, bounds |-> obj.bounds, region |-> obj.region,
     size |-> obj.size,
     center |-> <<MeanOf(obj.positions, 1), MeanOf(obj.positions, 2)>>,
     is_player |-> HasBlue(obj.color) /\ obj.size <= 4]

Structured(objects) == [i \in 1..Len(objects) |-> _convert_to_structured_object(objects[i])]

\* the cells that are not background, in row-major order; every one of them
\* while they are 20 or fewer, every (n // 20)-th otherwise
_find_clickable_coordinates(state) ==
    LET positions == SelectSeq(Cells(state), LAMBDA p : Cell(state, p) # 0)
        step      == Len(positions) \div 20
    IN  IF Len(positions) <= 20 THEN positions
        ELSE [k \in 1..((Len(positions) + step - 1) \div step) |->
                 positions[(k - 1) * step + 1]]

\* with the name of a single action as the description, which has none of the
\* words the function looks for
_determine_transformation_type(changed_objects) ==
    IF changed_objects = <<>> THEN "NO_EFFECT"
    ELSE IF Len(changed_objects) > 1 THEN "MULTIPLE_CHANGES"
    ELSE "TRANSFORMATION"

\* the loop over the pairs of objects of one id
ObjectChangesDetected(objects_before, objects_after) ==
    \/ Len(objects_before) # Len(objects_after)
    \/ \E i \in 1..Len(objects_before), j \in 1..Len(objects_after) :
          /\ objects_before[i].object_id = objects_after[j].object_id
          /\ \/ objects_before[i].bounds # objects_after[j].bounds
             \/ objects_before[i].size # objects_after[j].size
             \/ objects_before[i].region # objects_after[j].region

\* mutant: the loss of the level looked at before the score
TransitionType_LostFirst(is_level_up, is_level_lost) ==
    IF is_level_lost THEN "LEVEL_LOST"
    ELSE IF is_level_up THEN "LEVEL_UP"
    ELSE "GAME_RESET"

\* the if / elif / else under is_level_transition
TransitionType(is_level_up, is_level_lost) ==
    IF is_level_up THEN "LEVEL_UP"
    ELSE IF is_level_lost THEN "LEVEL_LOST"
    ELSE "GAME_RESET"

\* The structured data analyze_action_effect returns for a single action.
\* gemini_ok: whether the call of the vision service in the branch of detected
\* changes returns; the branch catches its exception.
analyze_action_effect(previous, latest, previous_state, current_state, gemini_ok) ==
    LET is_level_up   == latest.score > previous.score
        is_level_lost == latest.state = "GAME_OVER" /\ previous.state # "GAME_OVER"
        is_game_reset == latest.state = "NOT_FINISHED" /\ previous.state = "GAME_OVER"
        objects_before == _detect_objects_in_matrix(previous_state)
        objects_after  == _detect_objects_in_matrix(current_state)
        difference_matrix == calculate_matrix_difference(previous_state, current_state)
        compared == _compare_objects(objects_before, objects_after)
    IN  IF is_level_up \/ is_level_lost \/ is_game_reset
        THEN AisthesisStructuredData(<<>>, <<>>, <<>>, <<>>,
                 TransitionType(is_level_up, is_level_lost),
                 TransitionType(is_level_up, is_level_lost) # "LEVEL_LOST",
                 TRUE, _find_clickable_coordinates(current_state))
        ELSE IF /\ \A r \in 1..Rows(difference_matrix), c \in 1..Cols(difference_matrix) :
                       difference_matrix[r][c] = 0
                /\ ~ObjectChangesDetected(objects_before, objects_after)
        THEN AisthesisStructuredData(Structured(objects_before), Structured(objects_before),
                 <<>>, Structured(objects_before), "NO_EFFECT", FALSE, FALSE,
                 _find_clickable_coordinates(current_state))
        ELSE IF gemini_ok
        THEN AisthesisStructuredData(Structured(objects_before), Structured(objects_after),
                 Structured(compared.changed_objects), Structured(compared.unchanged_objects),
                 _determine_transformation_type(compared.changed_objects),
                 Len(compared.changed_objects) > 0, FALSE,
                 _find_clickable_coordinates(current_state))
        ELSE AisthesisStructuredData(<<>>, <<>>, <<>>, <<>>, "ERROR", FALSE, FALSE,
                                     <<<<32, 32>>>>)

\* the frames the game may answer an action with: the agent resets a game that
\* is not started or over, and stops at a win; any other action may change the
\* score and the state
NextFrames(latest) ==
    IF latest.state \in {"NOT_PLAYED", "GAME_OVER"}
    THEN {FrameData(score, "NOT_FINISHED") : score \in {0, latest.score}}
    ELSE IF latest.state = "WIN" THEN {}
    ELSE {FrameData(score, state) :
             score \in {latest.score, latest.score + 1} \cap 0..MaxScore,
             state \in {"NOT_FINISHED", "GAME_OVER", "WIN"}}

\* the game after its first reset, not yet analysed
InitPerception ==
    /\ game_frames = <<FrameData(0, "NOT_PLAYED"), FrameData(0, "NOT_FINISHED")>>
    /\ matrix_before \in BlockGrids
    /\ matrix_after \in BlockGrids
    /\ grid_call = "none"
    /\ grid_result = <<>>
    /\ structured_data = NoStructuredData

\* no frame yet
IdlePerception ==
    /\ game_frames = <<>>
    /\ structured_data = NoStructuredData

\* the game answers an action with a frame
GameFrame ==
    /\ \E frame \in NextFrames(game_frames[2]) :
          game_frames' = <<game_frames[2], frame>>
    /\ matrix_before' = matrix_after
    /\ matrix_after' \in BlockGrids
    /\ structured_data' = NoStructuredData
    /\ UNCHANGED <<grid_call, grid_result>>

\* one analyze_action_effect call on the two latest frames
AnalyzeActionEffect ==
    /\ structured_data = NoStructuredData
    /\ \E gemini_ok \in BOOLEAN :
          structured_data' = analyze_action_effect(game_frames[1], game_frames[2],
                                                   matrix_before, matrix_after, gemini_ok)
    /\ UNCHANGED <<game_frames, gridVars>>

NextPerception == GameFrame \/ AnalyzeActionEffect
----------------------------------------------------------------------------
(* agents/tomas/tomas.py: the queue of the orders of LOGOS in the agent and   *)
(* the choice of the action of a turn.  An order is kept as its action         *)
(* command; the coordinates of a click only go into the action returned.      *)

\* the length of the longest list of sequential orders
MaxOrders == 3

\* the commands an order can name: two the action map has, one it has not
OrderCommands == {"move_up", "click", "wait"}

\* the keys of action_map in _execute_pending_order and in choose_action
action_map == {"move_up", "move_down", "move_left", "move_right", "space", "click"}

OrderLists == UNION {[1..n -> OrderCommands] : n \in 1..MaxOrders}

\* the queue: self.pending_orders and self.current_order_index
OrderQueue(orders, index) == [pending_orders |-> orders, current_order_index |-> index]

\* Tomas.__init__
NoOrders == OrderQueue(<<>>, 0)

add_orders_from_logos(orders_list) == OrderQueue(orders_list, 0)

\* the truth of what has_pending_orders returns: the empty list, or the
\* comparison
has_pending_orders(q) ==
    q.pending_orders # <<>> /\ q.current_order_index < Len(q.pending_orders)

\* mutant: the index is left where it is
get_next_order_NoAdvance(q) ==
    IF has_pending_orders(q)
    THEN [queue |-> q, order |-> q.current_order_index + 1]
    ELSE [queue |-> q, order |-> 0]

\* get_next_order: the queue after the call and the place in the list of the
\* order returned, 0 for None
get_next_order(q) ==
    IF has_pending_orders(q)
    THEN [queue |-> [q EXCEPT !.current_order_index = @ + 1],
          order |-> q.current_order_index + 1]
    ELSE [queue |-> q, order |-> 0]

clear_orders(q) == NoOrders

\* what choose_action did: how the action was chosen, whether the cognitive
\* flow (ask_gemini_analysis) ran, the place of the order executed or dropped
Choice(mode, cognitive, order) == [mode |-> mode, cognitive |-> cognitive, order |-> order]

NoChoice == Choice("none", FALSE, 0)

\* _execute_pending_order: the queue after it, the order it took from the
\* queue, and whether the action returned is the one of the order
_execute_pending_order(q) ==
    LET next == get_next_order(q)
    IN  IF next.order = 0
        THEN [queue |-> clear_orders(next.queue), order |-> 0, mode |-> "no_order"]
        ELSE IF q.pending_orders[next.order] \in action_map
        THEN [queue |-> next.queue, order |-> next.order, mode |-> "order"]
        ELSE [queue |-> clear_orders(next.queue), order |-> next.order,
              mode |-> "unrecognised_order"]

\* what the cognitive flow answers with: sequential orders, one immediate
\* command, or nothing usable
LogosAnswers ==
    {[kind |-> "sequential_orders", orders |-> orders, action |-> ""] : orders \in OrderLists}
    \cup {[kind |-> "immediate_command", orders |-> <<>>, action |-> action] :
             action \in OrderCommands}
    \cup {[kind |-> "none", orders |-> <<>>, action |-> ""]}

\* choose_action: the queue after it and the choice made
choose_action(q, state, logos_json) ==
    IF state \in {"NOT_PLAYED", "GAME_OVER"}
    THEN [queue |-> q, choice |-> Choice("RESET", FALSE, 0), added |-> FALSE]
    ELSE IF has_pending_orders(q)
    THEN [queue  |-> _execute_pending_order(q).queue,
          choice |-> Choice(_execute_pending_order(q).mode, FALSE,
                            _execute_pending_order(q).order),
          added  |-> FALSE]
    ELSE IF logos_json.kind = "sequential_orders"
    THEN LET executed == _execute_pending_order(add_orders_from_logos(logos_json.orders))
         IN  [queue  |-> executed.queue,
              choice |-> Choice(executed.mode, TRUE, executed.order),
              added  |-> TRUE]
    ELSE IF logos_json.kind = "immediate_command" /\ logos_json.action \in action_map
    THEN [queue |-> q, choice |-> Choice("immediate_command", TRUE, 0), added |-> FALSE]
    ELSE [queue |-> q, choice |-> Choice("fallback", TRUE, 0), added |-> FALSE]

\* the agent as constructed, before the first frame of the game
InitOrders ==
    /\ order_queue = NoOrders
    /\ game_state = "NOT_PLAYED"
    /\ to_move = "agent"
    /\ last_choice = NoChoice
    /\ queued = <<>>
    /\ handed_out = <<>>

IdleOrders ==
    /\ order_queue = NoOrders
    /\ game_state = "NOT_PLAYED"
    /\ to_move = "none"
    /\ last_choice = NoChoice
    /\ queued = <<>>
    /\ handed_out = <<>>

\* one choose_action call on the latest frame
ChooseAction ==
    /\ to_move = "agent"
    /\ \E logos_json \in LogosAnswers :
          LET chosen == choose_action(order_queue, game_state, logos_json)
          IN  /\ order_queue' = chosen.queue
              /\ last_choice' = chosen.choice
              /\ queued' = IF chosen.added THEN logos_json.orders ELSE queued
              /\ handed_out' =
                     IF chosen.choice.order = 0 THEN handed_out
                     ELSE IF chosen.added THEN <<chosen.choice.order>>
                     ELSE Append(handed_out, chosen.choice.order)
    /\ to_move' = "game"
    /\ UNCHANGED game_state

\* the game answers the action with a frame: a reset starts a game; another
\* action may end it
TakeAction ==
    /\ to_move = "game"
    /\ game_state' \in IF last_choice.mode = "RESET" THEN {"NOT_FINISHED"}
                       ELSE {"NOT_FINISHED", "GAME_OVER", "WIN"}
    /\ to_move' = IF game_state' = "WIN" THEN "none" ELSE "agent"
    /\ UNCHANGED <<order_queue, last_choice, queued, handed_out>>

NextOrders == ChooseAction \/ TakeAction
----------------------------------------------------------------------------
(* The parsing of the decision: NucleiLogos._parse_action_response and      *)
(* utils/response_parser.py.                                                *)
(*                                                                          *)
(* A response text is a sequence of tokens.  A token is a word, a JSON      *)
(* object of one key (inside a ```json fence or not) or a fragment: text    *)
(* that names a key and its value but is no JSON that json.loads accepts.   *)

\* the longest response text, in tokens
MaxTokens == 2

valid_actions == <<"up", "down", "left", "right", "space", "click">>

\* len(action_sequence) <= 5
LongestSequence == 5

ResponseWords == {"up", "LEFT", "jump"}

\* str.lower()
lower(word) == IF word = "LEFT" THEN "left" ELSE word

\* an element of a JSON list: a string, an object with the keys action and
\* coordinates, a number
Item(type, action, coordinates) ==
    [type |-> type, action |-> action, coordinates |-> coordinates]

Str(word) == Item("str", word, <<>>)
Dict(action, coordinates) == Item("dict", action, coordinates)
Number == Item("int", "", <<>>)

Token(kind, fenced, key, list, word, items) ==
    [kind |-> kind, fenced |-> fenced, key |-> key, list |-> list, word |-> word,
     items |-> items]

Word(word) == Token("word", FALSE, "", FALSE, word, <<>>)

\* {"<key>": "<word>"} and {"<key>": [<items>]}
ObjectOfWord(fenced, key, word) == Token("object", fenced, key, FALSE, word, <<>>)
ObjectOfList(fenced, key, items) == Token("object", fenced, key, TRUE, "", items)

\* "<key>": "<word>" and "<key>": ["<word>", ...] in text that is no JSON
FragmentOfWord(key, word) == Token("fragment", FALSE, key, FALSE, word, <<>>)
FragmentOfList(key, items) == Token("fragment", FALSE, key, TRUE, "", items)

TooLong == [i \in 1..(LongestSequence + 1) |-> Str("up")]

\* the lists an action_sequence is: none, valid names, a name in capitals, no
\* action, a number, clicks with and without two coordinates, too many
Lists ==
    { <<>>,
      <<Str("up")>>,
      <<Str("left"), Str("up")>>,
      <<Str("LEFT")>>,
      <<Str("jump")>>,
      <<Str("up"), Number>>,
      <<Dict("click", <<3, 4>>)>>,
      <<Dict("click", <<3>>)>>,
      <<Dict("jump", <<3, 4>>)>>,
      TooLong }

QuotedLists == { <<Str("LEFT"), Str("jump")>>, <<Str("jump")>>, TooLong }

Tokens ==
    {Word(word) : word \in ResponseWords}
    \cup {ObjectOfList(fenced, "action_sequence", items) :
             fenced \in BOOLEAN, items \in Lists}
    \cup {ObjectOfWord(fenced, "action_sequence", "up") : fenced \in BOOLEAN}
    \cup {ObjectOfWord(fenced, "selected_action", word) :
             fenced \in BOOLEAN, word \in {"LEFT", "jump"}}
    \cup {ObjectOfWord(fenced, "action", "LEFT") : fenced \in BOOLEAN}
    \cup {FragmentOfWord("selected_action", word) : word \in {"LEFT", "jump"}}
    \cup {FragmentOfList("action_sequence", items) : items \in QuotedLists}

ResponseTexts == UNION {[1..n -> Tokens] : n \in 0..MaxTokens}

\* what extract_action_from_response returns: None, or a dict
None == Token("none", FALSE, "", FALSE, "", <<>>)

\* isinstance(parsed, dict) and
\* ("selected_action" in parsed or "action_sequence" in parsed)
HasActionKey(token) ==
    token.kind = "object" /\ token.key \in {"selected_action", "action_sequence"}

\* the first token of the text that satisfies Test, None if there is none
First(text, Test(_)) ==
    IF \E i \in 1..Len(text) : Test(text[i])
    THEN text[CHOOSE i \in 1..Len(text) :
                 Test(text[i]) /\ \A j \in 1..(i - 1) : ~Test(text[j])]
    ELSE None

\* Method 1: json.loads of the whole text
DirectJson(text) ==
    IF Len(text) = 1 /\ ~text[1].fenced /\ HasActionKey(text[1]) THEN text[1] ELSE None

\* Method 2: the first code block; the patterns after ```json capture no JSON
CodeBlockJson(text) ==
    IF HasActionKey(First(text, LAMBDA token : token.fenced))
    THEN First(text, LAMBDA token : token.fenced)
    ELSE None

\* Method 3: the first of the brace-matched candidates that is a dict with an
\* action key
CandidateJson(text) == First(text, HasActionKey)

\* Method 4, the patterns of one action: "selected_action": "..." first, then
\* "action": "..."; the third pattern captures what the first captured
PatternAction(text) ==
    LET selected == First(text, LAMBDA token : token.kind = "fragment"
                                               /\ token.key = "selected_action")
        action   == First(text, LAMBDA token : token.kind = "object"
                                               /\ token.key = "action")
    IN  IF selected # None /\ lower(selected.word) \in ToSet(valid_actions)
        THEN ObjectOfWord(FALSE, "selected_action", lower(selected.word))
        ELSE IF action # None /\ lower(action.word) \in ToSet(valid_actions)
        THEN ObjectOfWord(FALSE, "selected_action", lower(action.word))
        ELSE None

\* Method 4, the pattern of a sequence: the quoted strings of the first
\* "action_sequence": [...] that are actions, in lower case
PatternSequence(text) ==
    LET sequence == First(text, LAMBDA token : token.kind = "fragment"
                                               /\ token.key = "action_sequence")
        filtered_actions ==
            SelectSeq(sequence.items,
                      LAMBDA item : lower(item.action) \in ToSet(valid_actions))
    IN  IF sequence # None /\ filtered_actions # <<>>
           /\ Len(filtered_actions) <= LongestSequence
        THEN ObjectOfList(FALSE, "action_sequence",
                          [i \in 1..Len(filtered_actions) |->
                              Str(lower(filtered_actions[i].action))])
        ELSE None

extract_action_from_response(text) ==
    IF text = <<>> THEN None
    ELSE IF DirectJson(text) # None THEN DirectJson(text)
    ELSE IF CodeBlockJson(text) # None THEN CodeBlockJson(text)
    ELSE IF CandidateJson(text) # None THEN CandidateJson(text)
    ELSE IF PatternAction(text) # None THEN PatternAction(text)
    ELSE PatternSequence(text)

\* a check of the types of the elements only
valid_sequence_AnyName(items) ==
    \A i \in 1..Len(items) :
        \/ items[i].type = "str"
        \/ items[i].type = "dict" /\ Len(items[i].coordinates) = 2

\* the loop over action_sequence in _parse_action_response
valid_sequence(items) ==
    \A i \in 1..Len(items) :
        \/ items[i].type = "str" /\ items[i].action \in ToSet(valid_actions)
        \/ /\ items[i].type = "dict"
           /\ items[i].action \in ToSet(valid_actions)
           /\ Len(items[i].coordinates) = 2

\* action_data and action_data.get("action_sequence"), a list of at most 5
\* elements, every one valid
StrictlyParsed(parsed) ==
    /\ parsed # None
    /\ parsed.key = "action_sequence"
    /\ parsed.list
    /\ parsed.items # <<>>
    /\ Len(parsed.items) <= LongestSequence
    /\ valid_sequence(parsed.items)

\* the words the text has between word boundaries: the words outside JSON and
\* the strings inside it
WordsOf(token) ==
    IF token.list
    THEN {token.items[i].action :
             i \in {j \in 1..Len(token.items) : token.items[j].type # "int"}}
    ELSE {token.word}

\* re.search(rf"\b{action}\b", response_text, re.IGNORECASE)
Found(text, action) ==
    \E i \in 1..Len(text) : \E word \in WordsOf(text[i]) : lower(word) = action

\* what _parse_action_response returns: the stage that gave the decision and
\* its action_sequence
ActionData(stage, action_sequence) ==
    [stage |-> stage, action_sequence |-> action_sequence]

NoActionData == ActionData("none", <<>>)

_extract_action_from_text(text) ==
    IF \E k \in 1..Len(valid_actions) : Found(text, valid_actions[k])
    THEN ActionData("text",
             <<Str(valid_actions[CHOOSE k \in 1..Len(valid_actions) :
                       /\ Found(text, valid_actions[k])
                       /\ \A j \in 1..(k - 1) : ~Found(text, valid_actions[j])])>>)
    ELSE NoActionData

_parse_action_response(text) ==
    IF StrictlyParsed(extract_action_from_response(text))
    THEN ActionData("structured", extract_action_from_response(text).items)
    ELSE IF _extract_action_from_text(text) # NoActionData
    THEN _extract_action_from_text(text)
    ELSE ActionData("default", <<Str("up")>>)

InitParser ==
    /\ response_text \in ResponseTexts
    /\ action_data = NoActionData

\* no response yet
IdleParser ==
    /\ response_text = <<>>
    /\ action_data = NoActionData

\* process() parses the response of the decision layer
ParseActionResponse ==
    /\ action_data = NoActionData
    /\ action_data' = _parse_action_response(response_text)
    /\ UNCHANGED response_text

NextParser == ParseActionResponse

----------------------------------------------------------------------------
(* The detection of progress: NucleiLogos._detect_progress and             *)
(* ProgressAnalysis.get_overall_progress_score.                            *)
(*                                                                          *)
(* The analysis text is the set of the phrases it is made of; a keyword is *)
(* in the text when it is part of one of the phrases.  Scores are kept in  *)
(* ten-thousandths, their parts in hundredths and the three strategic      *)
(* measures in tenths: every literal of the code is a multiple of these.   *)

\* the most phrases of an analysis text
MaxPhrases == 2

\* the keywords of the code that are part of a phrase
KeywordsIn(phrase) ==
    CASE phrase = "the grid looks the same"   -> {}
      [] phrase = "no effect"                 -> {"no effect"}
      [] phrase = "player moved"              -> {"player moved"}
      [] phrase = "changed objects (7 total)" -> {"changed objects", "changed"}
      [] phrase = "changed objects"           -> {"changed objects", "changed"}
      [] phrase = "transformation"            -> {"transformation"}
      [] phrase = "new level"                 -> {"new level"}
      [] phrase = "turkey"                    -> {"key"}
      [] phrase = "rule confirmed"            -> {"rule", "confirmed"}
      [] phrase = "might be the goal"         -> {"might", "goal"}
      [] phrase = "score"                     -> {"score"}
      [] phrase = "click at coordinates"      -> {"click", "coordinates"}
      [] phrase = "random"                    -> {"random"}
      [] phrase = "valid action"              -> {"valid action"}
      [] phrase = "efficient strategy"        -> {"efficient", "strategy"}

Phrases ==
    {"the grid looks the same", "no effect", "player moved",
     "changed objects (7 total)", "changed objects", "transformation", "new level",
     "turkey", "rule confirmed", "might be the goal", "score",
     "click at coordinates", "random", "valid action", "efficient strategy"}

AnalysisTexts == {text \in SUBSET Phrases : Cardinality(text) <= MaxPhrases}

\* the scores of a frame
Scores == {0, 1, 6}

\* keyword in analysis_lower
Has(analysis_lower, keyword) ==
    \E phrase \in analysis_lower : keyword \in KeywordsIn(phrase)

\* any(keyword in analysis_lower for keyword in keywords)
AnyOf(analysis_lower, keywords) ==
    \E keyword \in keywords : Has(analysis_lower, keyword)

new_areas_discovered(analysis_lower) ==
    AnyOf(analysis_lower,
        {"new level", "level up", "different area", "new region", "explored"})

player_position_change(analysis_lower) ==
    AnyOf(analysis_lower,
        {"player moved", "player position", "moved from", "player.*center",
         "player.*region"})

\* the number re.search(r"changed objects \((\d+)", ...) finds, 1 if it finds
\* none and the text tells of a change otherwise
object_positions_changed(analysis_lower) ==
    IF ~Has(analysis_lower, "changed objects") THEN 0
    ELSE IF "changed objects (7 total)" \in analysis_lower THEN 7
    ELSE IF AnyOf(analysis_lower, {"objects that changed", "transformation"}) THEN 1
    ELSE 0

new_interactions_discovered(analysis_lower) ==
    AnyOf(analysis_lower,
        {"activated", "triggered", "interaction", "button", "switch", "door", "key"})

rules_confirmed(analysis_lower) ==
    IF AnyOf(analysis_lower, {"confirmed", "proven", "verified"}) THEN 1 ELSE 0

hypotheses_generated(analysis_lower) ==
    IF AnyOf(analysis_lower, {"hypothesis", "theory", "suggests", "might"}) THEN 1 ELSE 0

understanding_improved(analysis_lower) ==
    AnyOf(analysis_lower,
        {"pattern", "rule", "mechanism", "understanding", "learned", "discovered"})

objective_clarity_increased(analysis_lower) ==
    AnyOf(analysis_lower,
        {"goal", "objective", "target", "exit", "win condition", "progress toward"})

strategy_refined(analysis_lower) ==
    AnyOf(analysis_lower,
        {"strategy", "approach", "plan", "sequence", "optimal", "efficient"})

\* in tenths
sequence_effectiveness(analysis_lower) ==
    IF AnyOf(analysis_lower, {"no effect", "no impact"}) THEN 0
    ELSE IF AnyOf(analysis_lower, {"major progress", "score"}) THEN 10
    ELSE IF AnyOf(analysis_lower, {"minor progress", "changed"}) THEN 7
    ELSE IF Has(analysis_lower, "valid action") THEN 4
    ELSE 5

\* in tenths
action_precision(analysis_lower) ==
    IF Has(analysis_lower, "click") /\ Has(analysis_lower, "coordinates") THEN 9
    ELSE IF AnyOf(analysis_lower, {"specific", "targeted", "precise"}) THEN 8
    ELSE IF AnyOf(analysis_lower, {"random", "exploratory"}) THEN 3
    ELSE 6

\* in tenths
goal_proximity(old_score, new_score, analysis_lower) ==
    LET by_score == IF new_score > old_score
                    THEN Min(10, 5 + (new_score - old_score))
                    ELSE 3
    IN  IF AnyOf(analysis_lower, {"exit", "goal", "finish", "complete", "win"})
        THEN Min(10, by_score + 3)
        ELSE by_score

ProgressAnalysis(old_score, new_score, analysis_lower) ==
    [ new_areas_discovered        |-> new_areas_discovered(analysis_lower),
      player_position_change      |-> player_position_change(analysis_lower),
      object_positions_changed    |-> object_positions_changed(analysis_lower),
      new_interactions_discovered |-> new_interactions_discovered(analysis_lower),
      rules_confirmed             |-> rules_confirmed(analysis_lower),
      hypotheses_generated        |-> hypotheses_generated(analysis_lower),
      understanding_improved      |-> understanding_improved(analysis_lower),
      objective_clarity_increased |-> objective_clarity_increased(analysis_lower),
      strategy_refined            |-> strategy_refined(analysis_lower),
      sequence_effectiveness      |-> sequence_effectiveness(analysis_lower),
      action_precision            |-> action_precision(analysis_lower),
      goal_proximity              |-> goal_proximity(old_score, new_score,
                                                     analysis_lower) ]

_create_multidimensional_progress_analysis(old_score, new_score, analysis_lower) ==
    ProgressAnalysis(old_score, new_score, analysis_lower)

\* in hundredths
spatial_score(a) ==
    (IF a.new_areas_discovered THEN 30 ELSE 0)
    + (IF a.player_position_change THEN 20 ELSE 0)
    + Min(20, a.object_positions_changed * 5)

mechanical_score(a) ==
    (IF a.new_interactions_discovered THEN 30 ELSE 0)
    + Min(30, a.rules_confirmed * 10)
    + Min(20, a.hypotheses_generated * 5)

conceptual_score(a) ==
    (IF a.understanding_improved THEN 30 ELSE 0)
    + (IF a.objective_clarity_increased THEN 30 ELSE 0)
    + (IF a.strategy_refined THEN 20 ELSE 0)

strategic_score(a) ==
    a.sequence_effectiveness * 4 + a.action_precision * 3 + a.goal_proximity * 3

\* in ten-thousandths
get_overall_progress_score(a) ==
    Min(10000, spatial_score(a) * 25 + mechanical_score(a) * 30
               + conceptual_score(a) * 25 + strategic_score(a) * 20)

\* The progress types of a score.  The code adds and compares binary floats:
\* a score that is a threshold in ten-thousandths may fall on either side.
ProgressTypeOf(overall_score) ==
    {type \in ProgressTypes :
        \/ type = "MAJOR_PROGRESS" /\ overall_score >= 8000
        \/ type = "MINOR_PROGRESS" /\ overall_score >= 5000 /\ overall_score <= 8000
        \/ type = "VALID_ACTION" /\ overall_score >= 2000 /\ overall_score <= 5000
        \/ type = "NO_EFFECT" /\ overall_score <= 2000}

_detect_progress(old_score, new_score, analysis_lower) ==
    ProgressTypeOf(get_overall_progress_score(
        _create_multidimensional_progress_analysis(old_score, new_score,
                                                   analysis_lower)))

InitProgress ==
    /\ aisthesis_analysis \in AnalysisTexts
    /\ frame_scores \in Scores \X Scores
    /\ progress = "none"

\* no frame yet
IdleProgress ==
    /\ aisthesis_analysis = {}
    /\ frame_scores = <<0, 0>>
    /\ progress = "none"

\* process() classifies the effect of the latest action
DetectProgress ==
    /\ progress = "none"
    /\ progress' \in _detect_progress(frame_scores[1], frame_scores[2],
                                      aisthesis_analysis)
    /\ UNCHANGED <<aisthesis_analysis, frame_scores>>

NextProgress == DetectProgress

----------------------------------------------------------------------------
(* The specifications: one per component, the other components at rest      *)

\* the rule engine
Init == InitSophia /\ IdleLogos /\ IdleMemory /\ IdleGrid /\ IdleParser /\ IdleProgress /\ IdlePerception /\ IdleOrders
Next == NextSophia /\ UNCHANGED <<logosVars, memoryVars, gridVars, parserVars, progressVars, perceptionVars, ordersVars>>
Spec == Init /\ [][Next]_vars

\* the affect engine within NucleiLogos
InitL == InitLogos /\ IdleSophia /\ IdleMemory /\ IdleGrid /\ IdleParser /\ IdleProgress /\ IdlePerception /\ IdleOrders
NextL == NextLogos /\ UNCHANGED <<sophiaVars, memoryVars, gridVars, parserVars, progressVars, perceptionVars, ordersVars>>
SpecLogos == InitL /\ [][NextL]_vars

\* the associative memory
InitM == InitMemory /\ IdleSophia /\ IdleLogos /\ IdleGrid /\ IdleParser /\ IdleProgress /\ IdlePerception /\ IdleOrders
NextM == NextMemory /\ UNCHANGED <<sophiaVars, logosVars, gridVars, parserVars, progressVars, perceptionVars, ordersVars>>
SpecMemory == InitM /\ [][NextM]_vars

\* the grid helpers
InitG == InitGrid /\ IdleSophia /\ IdleLogos /\ IdleMemory /\ IdleParser /\ IdleProgress /\ IdlePerception /\ IdleOrders
NextG == NextGrid /\ UNCHANGED <<sophiaVars, logosVars, memoryVars, parserVars, progressVars, perceptionVars, ordersVars>>
SpecGrid == InitG /\ [][NextG]_vars

\* the parsing of the decision
InitP == InitParser /\ IdleSophia /\ IdleLogos /\ IdleMemory /\ IdleGrid /\ IdleProgress /\ IdlePerception /\ IdleOrders
NextP == NextParser /\ UNCHANGED <<sophiaVars, logosVars, memoryVars, gridVars, progressVars, perceptionVars, ordersVars>>
SpecParser == InitP /\ [][NextP]_vars

\* the detection of progress
InitD == InitProgress /\ IdleSophia /\ IdleLogos /\ IdleMemory /\ IdleGrid /\ IdleParser /\ IdlePerception /\ IdleOrders
NextD == NextProgress /\ UNCHANGED <<sophiaVars, logosVars, memoryVars, gridVars, parserVars, perceptionVars, ordersVars>>
SpecProgress == InitD /\ [][NextD]_vars

\* the cross-validation of the rule engine, on drawn rules
InitCV == InitCrossValidation /\ IdleLogos /\ IdleMemory /\ IdleGrid /\ IdleParser /\ IdleProgress /\ IdlePerception /\ IdleOrders
NextCV == NextCrossValidation /\ UNCHANGED <<logosVars, memoryVars, gridVars, parserVars, progressVars, perceptionVars, ordersVars>>
SpecCrossValidation == InitCV /\ [][NextCV]_vars

\* the perception of the frames of the game
InitA == InitPerception /\ IdleSophia /\ IdleLogos /\ IdleMemory /\ IdleParser /\ IdleProgress /\ IdleOrders
NextA == NextPerception /\ UNCHANGED <<sophiaVars, logosVars, memoryVars, parserVars, progressVars, ordersVars>>
SpecPerception == InitA /\ [][NextA]_vars

\* the queue of orders of the agent
InitO == InitOrders /\ IdleSophia /\ IdleLogos /\ IdleMemory /\ IdleGrid /\ IdleParser /\ IdleProgress /\ IdlePerception
NextO == NextOrders /\ UNCHANGED <<sophiaVars, logosVars, memoryVars, gridVars, parserVars, progressVars, perceptionVars>>
SpecOrders == InitO /\ [][NextO]_vars
----------------------------------------------------------------------------
(* Properties of the rule engine *)

AllRules == {confirmed_rules[i] : i \in 1..Len(confirmed_rules)}
AllHypotheses == {active_hypotheses[i] : i \in 1..Len(active_hypotheses)}

\* C1: after every process() call the confidence of every confirmed rule and of
\* every active hypothesis lies in [0, 1] (0..1000 thousandths).
C1_ConfidenceInUnitInterval ==
    /\ \A r \in AllRules : r.confidence >= 0 /\ r.confidence <= 1000
    /\ \A h \in AllHypotheses : h.confidence >= 0 /\ h.confidence <= 1000

\* C1 witness: a rule whose confidence the cap holds at 1.0 and a hypothesis that
\* was weakened, after at least one process() call.
C1_Witness ==
    /\ turn_counter > horizon - MaxTurns
    /\ \E r \in AllRules : r.confidence = 1000
    /\ \E h \in AllHypotheses : h.confidence < 400

\* the rules of the confirmed set that carry an id
RulesWithId(id) == {i \in 1..Len(confirmed_rules) : confirmed_rules[i].id = id}

\* C2 as claimed: every hypothesis promoted by the latest process() call is gone
\* from the active set, is exactly once in the confirmed set, and the rule made
\* of it carries the hypothesis's category, description, confidence and evidence
\* count, whichever of the two promotion paths promoted it.
C2_PromotedCarriesConfidence ==
    \A k \in 1..Len(promotions) :
        LET p == promotions[k]
        IN  /\ p.hyp.id \notin Ids(active_hypotheses)
            /\ Cardinality(RulesWithId(p.hyp.id)) = 1
            /\ p.rule.rule_type = p.hyp.rule_type
            /\ p.rule.description = p.hyp.description
            /\ p.rule.evidence_count = p.hyp.evidence_count
            /\ p.rule.confidence = p.hyp.confidence

\* C2 amended: as above, but the confidence is the hypothesis's only on the
\* per-observation promotion check; a hypothesis promoted by consolidation
\* becomes a rule with that confidence raised by 0.1, capped at 1.0.  Category,
\* description and evidence count are also those of the stored rule when
\* process() returns.
C2_PromotedOnceAsRule ==
    \A k \in 1..Len(promotions) :
        LET p == promotions[k]
        IN  /\ p.hyp.id \notin Ids(active_hypotheses)
            /\ Cardinality(RulesWithId(p.hyp.id)) = 1
            /\ p.rule.rule_type = p.hyp.rule_type
            /\ p.rule.description = p.hyp.description
            /\ p.rule.evidence_count = p.hyp.evidence_count
            /\ p.rule.confidence = IF p.by = "consolidation"
                                   THEN Min(1000, p.hyp.confidence + 100)
                                   ELSE p.hyp.confidence
            /\ \A i \in RulesWithId(p.hyp.id) :
                  /\ confirmed_rules[i].rule_type = p.hyp.rule_type
                  /\ confirmed_rules[i].description = p.hyp.description
                  /\ confirmed_rules[i].evidence_count = p.hyp.evidence_count

\* C2 witness: a process() call promoted a hypothesis of confidence below 0.9 by
\* consolidation, and the rule stored for it has the raised confidence.
C2_Witness ==
    \E k \in 1..Len(promotions) :
        /\ turn_counter > horizon - MaxTurns
        /\ promotions[k].by = "consolidation"
        /\ promotions[k].hyp.confidence < 900
        /\ \E r \in AllRules : /\ r.id = promotions[k].hyp.id
                                /\ r.confidence = promotions[k].hyp.confidence + 100

\* C10: the evidence count of a confirmed rule never decreases from one process()
\* call to the next, and a rule starts with the evidence count of the hypothesis
\* it was promoted from.
C10_EvidenceMonotone ==
    [][ /\ \A i \in 1..Len(confirmed_rules) : \A j \in 1..Len(confirmed_rules') :
              confirmed_rules'[j].id = confirmed_rules[i].id
              => confirmed_rules'[j].evidence_count >= confirmed_rules[i].evidence_count
        /\ \A k \in 1..Len(promotions') :
              \A j \in 1..Len(confirmed_rules') :
                  confirmed_rules'[j].id = promotions'[k].hyp.id
                  => confirmed_rules'[j].evidence_count = promotions'[k].hyp.evidence_count
      ]_vars

\* C10 witness: a rule that gained evidence after its promotion and was then
\* contradicted by the latest observation, keeping its evidence count.
C10_Witness ==
    /\ turn_counter > horizon - MaxTurns
    /\ promotions = <<>>
    /\ \E r \in AllRules : /\ r.evidence_count >= 3
                            /\ r.contradicting_evidence >= 1
                            /\ r.last_confirmed < turn_counter


\* C11: a confirmed rule is never removed: every id of the confirmed rule set
\* is still in it after the next process() call, whether the rule was
\* contradicted, decayed or penalised by the cross-validation in that call.
C11_RulesNeverRemoved ==
    [][ Ids(confirmed_rules) \subseteq Ids(confirmed_rules') ]_vars

\* C11 witness: after a process() call the confirmed set still holds a rule that
\* is not level-proven and was last confirmed more than 10 turns ago, so that the
\* call decayed it.
C11_Witness ==
    /\ turn_counter > horizon - MaxTurns
    /\ \E r \in AllRules : /\ ~r.level_proven
                            /\ turn_counter - r.last_confirmed > 10
                            /\ r.confidence < 1000

\* the hypotheses the latest process() call created: the active ones whose id
\* was neither an active nor a confirmed one before the call
CreatedBy(hyps_before, rules_before, hyps_after) ==
    {h \in ToSet(hyps_after) : h.id \notin Ids(hyps_before) \cup Ids(rules_before)}

\* C21: a process() call creates no hypothesis when an active hypothesis or a
\* confirmed rule of the same category and for the same action keyword (here
\* even with the same description) was there before the call: repeating an
\* action/effect pattern does not grow the hypothesis set.
C21_NoDuplicateHypothesis ==
    [][ \A h \in CreatedBy(active_hypotheses, confirmed_rules, active_hypotheses') :
            \A old \in ToSet(active_hypotheses) \cup ToSet(confirmed_rules) :
                ~(old.rule_type = h.rule_type /\ old.description = h.description)
      ]_vars

\* What holds of the creation of hypotheses: a movement hypothesis is not
\* created when an active movement hypothesis names the action; the other
\* categories, and a movement rule, do not prevent a duplicate.
MovementHypothesisNotDuplicated ==
    [][ \A h \in CreatedBy(active_hypotheses, confirmed_rules, active_hypotheses') :
            h.description.tmpl = "MOVEMENT"
            => \A old \in ToSet(active_hypotheses) :
                   ~(old.rule_type = "movement"
                     /\ DescHasAction(old.description, h.description.act))
      ]_vars

\* a rule the check of the existing rules and the consolidation left alone in
\* this step: it was neither confirmed nor contradicted nor boosted
Untouched(before, after) ==
    /\ before.id = after.id
    /\ before.evidence_count = after.evidence_count
    /\ before.supporting_evidence = after.supporting_evidence
    /\ before.contradicting_evidence = after.contradicting_evidence
    /\ before.level_proven = after.level_proven

GracePeriod(rule) == IF rule.level_proven THEN 25 ELSE 10

DecayFloor(rule) == IF rule.level_proven THEN 700 ELSE 400

\* the largest loss of one turn: 0.01 level-proven, else 0.03 / 0.05 / 0.08 by
\* tier; a confidence that stands at a tier's threshold may be stored just
\* short of it and then is of the tier below
DecayCap(rule) ==
    IF rule.level_proven THEN 10
    ELSE IF rule.confidence > 800 THEN 30
    ELSE IF rule.confidence > 600 THEN 50
    ELSE 80

\* C22: in the gradual-decay step a rule loses confidence only when its last
\* confirmation is older than the grace period (10 turns, 25 if level-proven);
\* the loss is at most the cap of its tier (0.03 / 0.05 / 0.08, 0.01 if
\* level-proven) and does not take it below the floor (0.4, 0.7 if
\* level-proven); the step never increases the confidence of a rule.  Stated of
\* the rules a process() call neither confirms, contradicts nor consolidates,
\* whose confidence only the decay step and the cross-validation can change.
C22_DecayOnlyLowers ==
    [][ \A i \in 1..Len(confirmed_rules) : \A j \in 1..Len(confirmed_rules') :
            Untouched(confirmed_rules[i], confirmed_rules'[j])
            => LET before == confirmed_rules[i]
                   after  == confirmed_rules'[j]
                   since  == turn_counter' - before.last_confirmed
               IN  /\ after.confidence <= before.confidence
                   /\ after.confidence < before.confidence
                        => /\ since > GracePeriod(before)
                           /\ before.confidence - after.confidence <= DecayCap(before)
                           /\ after.confidence >= DecayFloor(before)
      ]_vars

\* The decay of a rule that stands at or above its floor: it only lowers the
\* confidence, past the grace period, by at most the cap and not below the floor.
DecayLowersAboveFloor ==
    [][ \A i \in 1..Len(confirmed_rules) : \A j \in 1..Len(confirmed_rules') :
            /\ Untouched(confirmed_rules[i], confirmed_rules'[j])
            /\ confirmed_rules[i].confidence >= DecayFloor(confirmed_rules[i])
            => LET before == confirmed_rules[i]
                   after  == confirmed_rules'[j]
                   since  == turn_counter' - before.last_confirmed
               IN  /\ after.confidence <= before.confidence
                   /\ after.confidence < before.confidence
                        => /\ since > GracePeriod(before)
                           /\ before.confidence - after.confidence <= DecayCap(before)
                           /\ after.confidence >= DecayFloor(before)
      ]_vars

\* the rules flagged level-proven by this step: flagged after it, and not a
\* rule flagged before it
NewlyProven(rules_before, rules_after) ==
    {rule \in ToSet(rules_after) :
        /\ rule.level_proven
        /\ \A old \in ToSet(rules_before) : old.id = rule.id => ~old.level_proven}

\* an explicit level-up notification in the effect text
LevelUpNotification(effect) ==
    AnyIn(effect, {"level up!", "level completed", "next level", "level won",
                   "level_up detected", "successfully completed level"})

\* a new-level signal
NewLevelSignal(effect) ==
    AnyIn(effect, {"reset", "new level", "fresh start", "level began"})

\* the observation reports a game reset, the one before it a lost level
ResetAfterLoss(obs) ==
    /\ Len(obs) >= 2
    /\ obs[Len(obs)] = E_RESET
    /\ obs[Len(obs) - 1] = E_LOST

\* C23: rules are boosted and flagged level-proven only by a level-completion
\* event: an explicit level-up notification in the effect text, or a new-level
\* signal with at least 2 successful actions among the last 3 observations; an
\* observation that reports a game reset following a lost level never
\* consolidates.
C23_ConsolidationOnlyOnLevelCompletion ==
    [][ /\ NewlyProven(confirmed_rules, confirmed_rules') # {}
            => LET current_effect == observations'[Len(observations')]
               IN  \/ LevelUpNotification(current_effect)
                   \/ /\ NewLevelSignal(current_effect)
                      /\ _count_recent_successful_actions(observations') >= 2
        /\ ResetAfterLoss(observations')
            => NewlyProven(confirmed_rules, confirmed_rules') = {}
      ]_vars

\* Rules are flagged level-proven only by an observation with a level-up
\* notification or a new-level signal after 2 successful actions of the last 3.
ConsolidationOnlyOnSignal ==
    [][ NewlyProven(confirmed_rules, confirmed_rules') # {}
            => LET current_effect == observations'[Len(observations')]
               IN  \/ LevelUpNotification(current_effect)
                   \/ /\ NewLevelSignal(current_effect)
                      /\ _count_recent_successful_actions(observations') >= 2
      ]_vars

\* the consolidation boosted the rule in this step: its confidence rose and a
\* piece of supporting evidence was added though no observation confirmed it
ConsolidationBoosted(before, after) ==
    /\ before.id = after.id
    /\ before.evidence_count = after.evidence_count
    /\ before.supporting_evidence # after.supporting_evidence
    /\ after.confidence > before.confidence

\* C24: the consolidation boost is one-time per rule: a rule that has been
\* boosted and flagged level-proven is not boosted again by a later
\* level-completion event.
C24_BoostedOnce ==
    [][ \A i \in 1..Len(confirmed_rules) : \A j \in 1..Len(confirmed_rules') :
            confirmed_rules[i].level_proven
            => ~ConsolidationBoosted(confirmed_rules[i], confirmed_rules'[j])
      ]_vars

\* C25: the level-proven flag is permanent: a rule flagged level-proven is
\* still a rule and still flagged after every later process() call, whatever
\* the call does to it (contradiction, decay, cross-validation penalty); and a
\* rule becomes flagged only in a call that consolidates, one whose observation
\* is detected as a level completion.
C25_LevelProvenIsPermanent ==
    [][ /\ \A i \in 1..Len(confirmed_rules) :
               confirmed_rules[i].level_proven
               => \E j \in 1..Len(confirmed_rules') :
                      /\ confirmed_rules'[j].id = confirmed_rules[i].id
                      /\ confirmed_rules'[j].level_proven
        /\ NewlyProven(confirmed_rules, confirmed_rules') # {}
               => LevelUpDetected(observations')
      ]_vars

\* C25 witness: a level-proven rule that was contradicted after it was
\* flagged: the consolidation leaves a rule at 0.65 or more, this one is below.
C25_Witness ==
    /\ turn_counter > horizon - MaxTurns
    /\ \E i \in 1..Len(confirmed_rules) :
           /\ confirmed_rules[i].level_proven
           /\ confirmed_rules[i].contradicting_evidence >= 1
           /\ confirmed_rules[i].confidence < 650

\* the hypothesis meets one of the three promotion paths; above: with a
\* confidence above the threshold of the path, not just at it
MeetsPath(hyp, above) ==
    LET least == IF above THEN 1 ELSE 0
    IN  \/ hyp.confidence >= 700 + least /\ hyp.evidence_count >= 2
        \/ hyp.confidence >= 600 + least /\ hyp.evidence_count >= 4
        \/ hyp.confidence >= 500 + least /\ hyp.evidence_count >= 6

\* C26: the promotion check of a process() call promotes a hypothesis if and
\* only if it meets one of the three paths (confidence >= 0.7 and evidence >= 2;
\* >= 0.6 and >= 4; >= 0.5 and >= 6): every hypothesis the check promoted meets
\* a path, and when the call has returned no hypothesis of the active set does.
\* A confidence that stands at the threshold of a path may be stored a
\* rounding error short of it; such a hypothesis is not promoted.
C26_PromotedIffPath ==
    /\ \A i \in 1..Len(promotions) :
           promotions[i].by = "check" => MeetsPath(promotions[i].hyp, FALSE)
    /\ \A j \in 1..Len(active_hypotheses) : ~MeetsPath(active_hypotheses[j], TRUE)

\* C26 witness: the check promoted a hypothesis by the second or third path,
\* and left a hypothesis with 2 pieces of evidence that falls short of the first.
C26_Witness ==
    /\ turn_counter > horizon - MaxTurns
    /\ \E i \in 1..Len(promotions) :
           /\ promotions[i].by = "check"
           /\ promotions[i].hyp.confidence < 700
    /\ \E j \in 1..Len(active_hypotheses) :
           /\ active_hypotheses[j].confidence >= 600
           /\ active_hypotheses[j].evidence_count >= 2

----------------------------------------------------------------------------
(* C31 *)

\* rule i is a member of a contradictory pair in which its confidence is not
\* the higher one
WeakerOfSomePair(rules, i) ==
    \E j \in 1..Len(rules) :
        /\ j # i
        /\ rules[i].rule_type = rules[j].rule_type
        /\ \E pair \in {<<"move", "blocked">>, <<"blocked", "move">>} :
              /\ pair[1] \in DescWords(rules[i].description)
              /\ pair[2] \in DescWords(rules[j].description)
        /\ rules[i].confidence <= rules[j].confidence

OnlyWeakerTouched ==
    [][\A i \in 1..Len(confirmed_rules) :
          ~WeakerOfSomePair(confirmed_rules, i)
              => confirmed_rules'[i] = confirmed_rules[i]]_vars

----------------------------------------------------------------------------
(* C34 *)

\* the number an id ends with
Suffix(id) == id[3]

HeldIds == Ids(confirmed_rules) \cup Ids(active_hypotheses)

\* the ids of a dictionary are its keys: no two entries share one
KeysOnce(dict) == \A i, j \in 1..Len(dict) : dict[i].id = dict[j].id => i = j

\* no id is held by both an active hypothesis and a confirmed rule, and the ids
\* held end with the numbers from 0 to one less than the number of hypotheses
\* created, each once
IdsDisjoint ==
    /\ Ids(confirmed_rules) \cap Ids(active_hypotheses) = {}
    /\ KeysOnce(confirmed_rules)
    /\ KeysOnce(active_hypotheses)
    /\ \A a, b \in HeldIds : Suffix(a) = Suffix(b) => a = b
    /\ {Suffix(id) : id \in HeldIds}
           = 0..(Len(confirmed_rules) + Len(active_hypotheses) - 1)

\* a promotion adds a rule and replaces none: the rules grow by the number of
\* promotions of the step, and every rule keeps its place
PromotionOverwritesNoRule ==
    /\ Len(confirmed_rules') = Len(confirmed_rules) + Len(promotions')
    /\ \A i \in 1..Len(confirmed_rules) : confirmed_rules'[i].id = confirmed_rules[i].id
    /\ \A i \in 1..Len(promotions') : promotions'[i].hyp.id \notin Ids(confirmed_rules)

\* C34: in every state the ids of the active hypotheses and of the confirmed
\* rules are disjoint and end with a number each of its own, the number of
\* hypotheses created before it; no promotion overwrites a rule.
C34_IdsDisjoint == []IdsDisjoint /\ [][PromotionOverwritesNoRule]_vars

\* a hypothesis has been created while a rule promoted from a hypothesis of
\* the same action and kind is held
C34_Witness ==
    /\ turn_counter > horizon - MaxTurns
    /\ \E i \in 1..Len(confirmed_rules), j \in 1..Len(active_hypotheses) :
          /\ confirmed_rules[i].id[1] = active_hypotheses[j].id[1]
          /\ confirmed_rules[i].id[2] = active_hypotheses[j].id[2]
          /\ Suffix(confirmed_rules[i].id) < Suffix(active_hypotheses[j].id)

----------------------------------------------------------------------------
(* C35 *)

\* C35: one process() call raises the evidence count of a hypothesis that
\* stays active by at most 1, and its confidence by at most one increment (the
\* largest is 0.1).
C35_OneIncrementPerObservation ==
    [][\A i \in 1..Len(active_hypotheses), j \in 1..Len(active_hypotheses') :
          active_hypotheses[i].id = active_hypotheses'[j].id
          => /\ active_hypotheses'[j].evidence_count
                    <= active_hypotheses[i].evidence_count + 1
             /\ active_hypotheses'[j].confidence
                    <= active_hypotheses[i].confidence + 100]_vars

\* the part that holds: at most two increments, the one of the check of the
\* hypotheses and the one of the creation of a movement hypothesis
AtMostTwoIncrements ==
    [][\A i \in 1..Len(active_hypotheses), j \in 1..Len(active_hypotheses') :
          active_hypotheses[i].id = active_hypotheses'[j].id
          => /\ active_hypotheses'[j].evidence_count
                    <= active_hypotheses[i].evidence_count + 2
             /\ active_hypotheses'[j].confidence
                    <= active_hypotheses[i].confidence + 150]_vars
----------------------------------------------------------------------------
(* Properties of the affect engine *)

\* C3: the affect mode (current_state) changes during an update_psychology call
\* only if the ideal state computed in that call and in the two calls before it
\* was the same state, the one the mode changes to, and differed from the mode
\* current at each of the three calls.
C3_SwitchAfterThreeIdeals ==
    [][ psychology'.current_state # psychology.current_state
        => /\ Len(ideal_states') = state_stability_threshold
           /\ \A i \in 1..Len(ideal_states') :
                 /\ ideal_states'[i].ideal = psychology'.current_state
                 /\ ideal_states'[i].current = psychology.current_state
                 /\ ideal_states'[i].ideal # ideal_states'[i].current
      ]_vars

\* C3 witness: the latest update_psychology call changed the mode, after three
\* calls whose ideal state was the new mode.
C3_Witness ==
    /\ logos_calls > logos_horizon - MaxLogosTurns
    /\ psychology.current_state # "exploring"
    /\ psychology.turns_in_current_state = 0
    /\ Len(ideal_states) = 3
    /\ \A i \in 1..3 : ideal_states[i].ideal = psychology.current_state


\* C6: a failure of the vision-language call made while a nucleus processes
\* its turn is caught and mapped to a labelled fallback; it never leaves the
\* turn as an exception.  For NucleiLogos.process the result of every turn is
\* then a list of actions, never a raised exception.
C6_FailureNeverPropagates ==
    logos_result # "raised"

\* C13: after every turn, whatever the progress types and the confidence
\* adjustments (the argument of update_psychology and the adjustment
\* NucleiLogos.process applies itself), confidence, frustration, patience and
\* curiosity are each in [0, 1] (0..10000 ten-thousandths).
C13_EmotionsInUnitInterval ==
    /\ psychology.confidence >= 0 /\ psychology.confidence <= 10000
    /\ psychology.frustration >= 0 /\ psychology.frustration <= 10000
    /\ psychology.patience >= 0 /\ psychology.patience <= 10000
    /\ psychology.curiosity_level >= 0 /\ psychology.curiosity_level <= 10000

\* C13 witness: after progress and positive adjustments the confidence is held
\* at 1.0 and the frustration at 0.0.
C13_Witness ==
    /\ logos_calls > logos_horizon - MaxLogosTurns
    /\ psychology.confidence = 10000
    /\ psychology.frustration = 0
    /\ psychology.total_turns >= 3

\* the updates so far, one at least, were all NO_EFFECT updates of a fresh engine
NoEffectRun ==
    /\ psychology.total_turns >= 1
    /\ psychology.consecutive_failures = psychology.total_turns

\* C14: from a fresh affect engine, a run of NO_EFFECT updates of 5 and more
\* brings the mode to "frustrated" as the run continues, and the mode stays
\* "frustrated" for as long as the run continues: the fifth update makes
\* "frustrated" the pending mode, and from the seventh update of the run on the
\* mode is "frustrated".
C14_NoEffectRunFrustrates ==
    /\ (NoEffectRun /\ psychology.total_turns \in {5, 6})
       => /\ psychology.pending_state_change = "frustrated"
          /\ psychology.state_change_confidence = psychology.total_turns - 4
    /\ (NoEffectRun /\ psychology.total_turns >= 5 + (state_stability_threshold - 1))
       => psychology.current_state = "frustrated"

\* C14 witness: a run of 7 NO_EFFECT updates of a fresh engine, the mode
\* "frustrated" while the frustration is still below 0.7.
C14_Witness ==
    /\ NoEffectRun
    /\ psychology.total_turns >= 7
    /\ psychology.current_state = "frustrated"
    /\ psychology.frustration < 7000

\* C15: in a run of NO_EFFECT updates of a fresh affect engine, every update
\* leaves the frustration strictly above its value before the update, until the
\* frustration is held at 1.0; from then on every update of the run leaves it
\* at 1.0.
C15_NoEffectRaisesFrustration ==
    [][ ( /\ psychology'.total_turns = psychology.total_turns + 1
          /\ psychology'.consecutive_failures = psychology'.total_turns )
        => IF psychology.frustration < 10000
           THEN psychology'.frustration > psychology.frustration
           ELSE psychology'.frustration = 10000 ]_vars

\* C15 witness: a run of NO_EFFECT updates of a fresh engine that went on after
\* the update that brought the frustration to 1.0.
C15_Witness ==
    /\ NoEffectRun
    /\ psychology.frustration = 10000
    /\ Len(psychology.emotion_history) >= 2
    /\ psychology.emotion_history[Len(psychology.emotion_history) - 1].frustration = 10000

\* this step is an update_psychology call
Updated(before, after) == after.total_turns = before.total_turns + 1

\* the ideal state the latest update_psychology call computed
LatestIdeal(ideals) == ideals[Len(ideals)].ideal

\* C28: a pending mode switch is abandoned when the ideal mode reverts: when a
\* switch to a mode is pending with fewer than 3 confirmations and the ideal
\* mode of the next update is the current mode, the pending mode is cleared
\* and the confirmation count reset to 0, the mode staying what it is, so that
\* a later switch needs 3 fresh consecutive confirmations; when the ideal mode
\* is another mode that is not the current one, that mode becomes the pending
\* one and the count restarts at 1.
C28_RevertAbandonsPending ==
    [][ ( /\ Updated(psychology, psychology')
          /\ psychology.pending_state_change # "None" )
        => /\ LatestIdeal(ideal_states') = psychology.current_state
              => /\ psychology'.pending_state_change = "None"
                 /\ psychology'.state_change_confidence = 0
                 /\ psychology'.current_state = psychology.current_state
           /\ LatestIdeal(ideal_states') \notin {psychology.current_state,
                                                 psychology.pending_state_change}
              => /\ psychology'.pending_state_change = LatestIdeal(ideal_states')
                 /\ psychology'.state_change_confidence = 1
                 /\ psychology'.current_state = psychology.current_state
           /\ psychology'.current_state # psychology.current_state
              => /\ psychology.state_change_confidence = state_stability_threshold - 1
                 /\ \A i \in 1..Len(ideal_states') :
                        ideal_states'[i].ideal = psychology'.current_state
      ]_vars

\* C28 witness: the update before the latest one left a switch pending, its
\* ideal mode not being the current one; the ideal mode of the latest update is
\* the current mode, and nothing is pending.
C28_Witness ==
    /\ logos_calls > logos_horizon - MaxLogosTurns
    /\ Len(ideal_states) >= 2
    /\ LET latest   == ideal_states[Len(ideal_states)]
           previous == ideal_states[Len(ideal_states) - 1]
       IN  /\ previous.ideal # previous.current
           /\ latest.current = previous.current
           /\ latest.ideal = latest.current
           /\ psychology.current_state = latest.current
    /\ psychology.pending_state_change = "None"
    /\ psychology.state_change_confidence = 0

\* the emotions the latest update_psychology call computed the ideal mode from
UsedEmotions(p) == p.emotion_history[Len(p.emotion_history)]

\* The conditions of the four modes that are not the default.  A value that
\* stands at its threshold may be stored a rounding error past it: with
\* `surely' the condition holds whatever the rounding, without it the
\* condition holds for some rounding.
FrustratedWhen(p, surely) ==
    \/ UsedEmotions(p).frustration > 7000
    \/ ~surely /\ UsedEmotions(p).frustration = 7000
    \/ p.consecutive_no_progress > 8
    \/ p.consecutive_failures > 4

OptimizationWhen(p, surely) ==
    /\ \/ UsedEmotions(p).confidence > 8000
       \/ ~surely /\ UsedEmotions(p).confidence = 8000
    /\ \/ p.recent_success_rate > 6000
       \/ ~surely /\ p.recent_success_rate = 6000

HypothesisTestingWhen(p, surely) ==
    /\ \/ UsedEmotions(p).confidence > 5000
       \/ ~surely /\ UsedEmotions(p).confidence = 5000
    /\ p.successful_actions > 1

PatternSeekingWhen(p, surely) ==
    /\ \/ UsedEmotions(p).curiosity < 5000
       \/ ~surely /\ UsedEmotions(p).curiosity = 5000
    /\ p.successful_actions > 0

\* C29: the ideal mode follows a fixed priority order: "frustrated" whenever
\* frustration > 0.7 or turns without progress > 8 or consecutive failures > 4,
\* whatever the confidence; otherwise "optimization" when confidence > 0.8 and
\* recent success rate > 0.6; otherwise "hypothesis_testing" when confidence >
\* 0.5 and successful actions > 1; otherwise "pattern_seeking" when curiosity <
\* 0.5 and successful actions > 0; otherwise "exploring".
C29_IdealModePriority ==
    ideal_states # <<>>
    => LET p     == psychology
           ideal == LatestIdeal(ideal_states)
       IN  /\ FrustratedWhen(p, TRUE) => ideal = "frustrated"
           /\ ideal = "frustrated" => FrustratedWhen(p, FALSE)
           /\ (~FrustratedWhen(p, FALSE) /\ OptimizationWhen(p, TRUE))
                  => ideal = "optimization"
           /\ ideal = "optimization"
                  => ~FrustratedWhen(p, TRUE) /\ OptimizationWhen(p, FALSE)
           /\ (/\ ~FrustratedWhen(p, FALSE) /\ ~OptimizationWhen(p, FALSE)
               /\ HypothesisTestingWhen(p, TRUE))
                  => ideal = "hypothesis_testing"
           /\ ideal = "hypothesis_testing"
                  => /\ ~FrustratedWhen(p, TRUE) /\ ~OptimizationWhen(p, TRUE)
                     /\ HypothesisTestingWhen(p, FALSE)
           /\ (/\ ~FrustratedWhen(p, FALSE) /\ ~OptimizationWhen(p, FALSE)
               /\ ~HypothesisTestingWhen(p, FALSE) /\ PatternSeekingWhen(p, TRUE))
                  => ideal = "pattern_seeking"
           /\ ideal = "pattern_seeking"
                  => /\ ~FrustratedWhen(p, TRUE) /\ ~OptimizationWhen(p, TRUE)
                     /\ ~HypothesisTestingWhen(p, TRUE) /\ PatternSeekingWhen(p, FALSE)
           /\ (/\ ~FrustratedWhen(p, FALSE) /\ ~OptimizationWhen(p, FALSE)
               /\ ~HypothesisTestingWhen(p, FALSE) /\ ~PatternSeekingWhen(p, FALSE))
                  => ideal = "exploring"
           /\ ideal = "exploring"
                  => /\ ~FrustratedWhen(p, TRUE) /\ ~OptimizationWhen(p, TRUE)
                     /\ ~HypothesisTestingWhen(p, TRUE) /\ ~PatternSeekingWhen(p, TRUE)

\* C29 witness: the ideal mode is "frustrated" after five failures in a row,
\* with a confidence and a number of successful actions that would make it
\* "hypothesis_testing" otherwise.
C29_Witness ==
    /\ logos_calls > logos_horizon - MaxLogosTurns
    /\ ideal_states # <<>>
    /\ LatestIdeal(ideal_states) = "frustrated"
    /\ psychology.consecutive_failures > 4
    /\ HypothesisTestingWhen(psychology, TRUE)

\* the progress types an update_psychology call that changed the counters
\* from before to after can have had
StepTypes(before, after) ==
    {progress_type \in ProgressTypes :
        LET counted == UpdateCounters(before, progress_type)
        IN  /\ counted.consecutive_failures = after.consecutive_failures
            /\ counted.consecutive_no_progress = after.consecutive_no_progress
            /\ counted.successful_actions = after.successful_actions}

\* how far the emotion moved in the update before this one
MovedBefore(p, emotion_type) ==
    p.emotion_history[Len(p.emotion_history)][emotion_type]
        - p.emotion_history[Len(p.emotion_history) - 1][emotion_type]

\* the delta as the momentum makes it: 1.1 times the delta when the emotion
\* moved the way of the delta in the update before, 0.8 times when it moved
\* the other way
AdjustedByMomentum(change, moved) ==
    IF (change > 0 /\ moved > 0) \/ (change < 0 /\ moved < 0)
    THEN RoundDiv(change * 11, 10)
    ELSE IF (change > 0 /\ moved < 0) \/ (change < 0 /\ moved > 0)
    THEN RoundDiv(change * 8, 10)
    ELSE change

\* C30: every applied emotion delta is adjusted by momentum: when the emotion
\* (here the frustration and the patience, which only update_psychology
\* changes) moved in one direction in the update before and the delta of this
\* update has the same sign, the applied delta is 1.1 times the delta; when the
\* delta reverses the direction, it is 0.8 times the delta.
C30_MomentumAdjustsDelta ==
    [][ ( /\ Updated(psychology, psychology')
          /\ Len(psychology.emotion_history) >= 2 )
        => \E progress_type \in StepTypes(psychology, psychology') :
              /\ UsedEmotions(psychology').frustration
                   = Max(0, Min(10000, psychology.frustration
                       + AdjustedByMomentum(
                             Modified(base_frustration_change(progress_type),
                                      stability_modifier(psychology)),
                             MovedBefore(psychology, "frustration"))))
              /\ UsedEmotions(psychology').patience
                   = Max(0, Min(10000, psychology.patience
                       + AdjustedByMomentum(
                             Modified(base_patience_change(progress_type),
                                      stability_modifier(psychology)),
                             MovedBefore(psychology, "patience"))))
      ]_vars

\* What the engine does: the momentum is the difference of the emotion from
\* the latest entry of the history, which is the emotion itself unless it was
\* changed outside update_psychology; the frustration and the patience get the
\* delta as it is.
FrustrationAndPatienceUnadjusted ==
    [][ Updated(psychology, psychology')
        => \E progress_type \in StepTypes(psychology, psychology') :
              /\ UsedEmotions(psychology').frustration
                   = Max(0, Min(10000, psychology.frustration
                       + Modified(base_frustration_change(progress_type),
                                  stability_modifier(psychology))))
              /\ UsedEmotions(psychology').patience
                   = Max(0, Min(10000, psychology.patience
                       + Modified(base_patience_change(progress_type),
                                  stability_modifier(psychology))))
      ]_vars
----------------------------------------------------------------------------
(* Properties of the associative memory *)

StoredExperiences == ToSet(memory.experiences)

\* C4: when a remember_success or remember_failure call returns, and so after
\* any sequence of them, the number of stored experience records is at most the
\* capacity max_experiences.
C4_WithinCapacity == Len(memory.experiences) <= max_experiences

\* C4 witness: the latest call inserted a record into a full memory, which
\* evicted one and is full again.
C4_Witness ==
    /\ memory_steps > memory_horizon - MaxMemorySteps
    /\ last_insertion.size = max_experiences + 1
    /\ last_insertion.evicted # {}
    /\ Len(memory.experiences) = max_experiences

C12_ClusterFixedAtInsertion ==
    [][ /\ \A i \in 1..Len(memory.experiences) :
              \A j \in 1..Len(memory'.experiences) :
                  memory'.experiences[j].id = memory.experiences[i].id
                  => memory'.experiences[j].similarity_cluster
                         = memory.experiences[i].similarity_cluster
        /\ \A j \in 1..Len(memory'.experiences) :
              memory'.experiences[j].similarity_cluster >= 0
      ]_vars

\* C12 witness: the latest insertion evicted another record and left records of
\* two clusters, one of them older than the insertion and retrieved before.
C12_Witness ==
    /\ memory_steps > memory_horizon - MaxMemorySteps
    /\ \E e \in last_insertion.evicted : e.id # last_insertion.id
    /\ \E r, q \in StoredExperiences :
          /\ r.id < last_insertion.id
          /\ r.usage_count > 0
          /\ r.similarity_cluster # q.similarity_cluster

\* the memory holds one record and never held another: the success "space" in
\* the context "key press near door"
OnlyDoorSuccess ==
    /\ inserted = 1
    /\ Len(memory.experiences) = 1
    /\ memory.experiences[1].context = Door
    /\ memory.experiences[1].action = "space"
    /\ memory.experiences[1].success

\* C16: when the memory holds nothing but the success remembered with the
\* context "key press near door" and the action "space", a
\* get_relevant_experience call with the context "door key" returns that record
\* among its top results, whatever the limit and the time passed, and the
\* contextual relevance of the record to the query is strictly positive.
C16_DoorKeyFindsDoorSuccess ==
    (OnlyDoorSuccess /\ last_query.context = <<"door", "key">>)
    => /\ \E k \in 1..Len(last_query.returned) :
             /\ k <= last_query.limit
             /\ last_query.returned[k].id = memory.experiences[1].id
             /\ last_query.returned[k].context = Door
             /\ last_query.returned[k].action = "space"
             /\ last_query.returned[k].success
       /\ _calculate_contextual_relevance(memory, memory.experiences[1],
                                          _extract_keywords(<<"door", "key">>)) > 0
       /\ memory.experiences[1].usage_count >= 1

\* C16 witness: the call "door key" was made almost six hours after the
\* success was remembered, it asked for one record and marked the one it
\* returned.
C16_Witness ==
    /\ memory_steps > memory_horizon - MaxMemorySteps
    /\ OnlyDoorSuccess
    /\ last_query.context = <<"door", "key">>
    /\ last_query.limit = 1
    /\ Len(last_query.returned) = 1
    /\ clock - memory.experiences[1].timestamp >= 70
    /\ memory.experiences[1].last_accessed = clock

----------------------------------------------------------------------------
(* C32 *)

\* the Jaccard similarity of a keyword list and the center of a cluster, as
\* the pair <<size of the intersection, size of the union>>
Jaccard(keywords, cluster) ==
    <<Cardinality(ToSet(keywords) \cap ToSet(cluster.center_keywords)),
      Cardinality(ToSet(keywords) \cup ToSet(cluster.center_keywords))>>

\* the clusters whose similarity with the keywords is at least 0.6
Similar(clusters, keywords) ==
    {i \in 1..Len(clusters) :
        /\ Jaccard(keywords, clusters[i])[2] > 0
        /\ 10 * Jaccard(keywords, clusters[i])[1] >= 6 * Jaccard(keywords, clusters[i])[2]}

\* no cluster of `among' is more similar to the keywords than cluster i
MostSimilar(clusters, keywords, among, i) ==
    \A j \in among :
        Jaccard(keywords, clusters[i])[1] * Jaccard(keywords, clusters[j])[2]
            >= Jaccard(keywords, clusters[j])[1] * Jaccard(keywords, clusters[i])[2]

ClusterIds(m) == {m.experience_clusters[i].cluster_id : i \in 1..Len(m.experience_clusters)}

\* the members of the cluster of an id, none if there is no such cluster
MembersOf(m, cluster_id) ==
    UNION {Ids(m.experience_clusters[i].experiences) :
              i \in {c \in 1..Len(m.experience_clusters) :
                        m.experience_clusters[c].cluster_id = cluster_id}}

\* the record of the latest insertion is stored
InsertedIsStored(m, insertion) ==
    \E k \in 1..Len(m.experiences) : m.experiences[k].id = insertion.id

\* C32: an inserted record joins a cluster of the highest Jaccard similarity
\* among those that reach 0.6 and no cluster is created; if none reaches 0.6 it
\* gets a new cluster, whose id no cluster has had, with that record only.
C32_JoinsMostSimilarCluster ==
    [][inserted' = inserted + 1 =>
        LET clusters == memory.experience_clusters
            new      == last_insertion'
            similar  == Similar(clusters, new.keywords)
        IN  IF similar # {}
            THEN /\ \E i \in similar :
                       /\ clusters[i].cluster_id = new.cluster
                       /\ MostSimilar(clusters, new.keywords, similar, i)
                 /\ memory'.next_cluster_id = memory.next_cluster_id
                 /\ InsertedIsStored(memory', new) => new.id \in MembersOf(memory', new.cluster)
            ELSE /\ new.cluster = memory.next_cluster_id
                 /\ \A c \in ClusterIds(memory) : c < new.cluster
                 /\ memory'.next_cluster_id = new.cluster + 1
                 /\ MembersOf(memory', new.cluster) \subseteq {new.id}
                 /\ InsertedIsStored(memory', new)
                        => MembersOf(memory', new.cluster) = {new.id}]_vars

\* cluster ids are below the next id to give, which is why a new id is fresh
ClusterIdsBelowNext == \A c \in ClusterIds(memory) : c < memory.next_cluster_id

\* a record has joined the more similar of two clusters that reach 0.6, the
\* later one of the dictionary
C32_Witness ==
    /\ last_insertion.id >= 0
    /\ \E i, j \in Similar(memory.experience_clusters, last_insertion.keywords) :
          /\ i < j
          /\ memory.experience_clusters[j].cluster_id = last_insertion.cluster
          /\ ~MostSimilar(memory.experience_clusters, last_insertion.keywords, {j}, i)
          /\ last_insertion.id \in MembersOf(memory, last_insertion.cluster)

\* a record without keywords has got a cluster of its own
NoKeywordsNewCluster ==
    /\ last_insertion.id >= 0
    /\ last_insertion.keywords = <<>>
    /\ Len(memory.experience_clusters) >= 2
    /\ MembersOf(memory, last_insertion.cluster) = {last_insertion.id}

----------------------------------------------------------------------------
(* C36 *)

StoredIds(m) == Ids(m.experiences)

\* every stored record is a member of the cluster its cluster id names
StoredAreMembers(m) ==
    \A k \in 1..Len(m.experiences) :
        /\ m.experiences[k].similarity_cluster \in ClusterIds(m)
        /\ m.experiences[k].id \in MembersOf(m, m.experiences[k].similarity_cluster)

\* every member of a cluster is a stored record, once in the list
MembersAreStored(m) ==
    \A c \in 1..Len(m.experience_clusters) :
        /\ Ids(m.experience_clusters[c].experiences) \subseteq StoredIds(m)
        /\ KeysOnce(m.experience_clusters[c].experiences)

\* a cluster that a call deletes held no record but the ones the call evicted
DeletedClustersWereEmptied ==
    \A c \in 1..Len(memory.experience_clusters) :
        memory.experience_clusters[c].cluster_id \notin ClusterIds(memory')
        => Ids(memory.experience_clusters[c].experiences) \cap StoredIds(memory') = {}

\* C36: in every state each stored record is a member of the cluster its
\* cluster id names and every member of a cluster is a stored record; a call
\* deletes no cluster that still has a member.
C36_ClustersMatchStore ==
    /\ [](StoredAreMembers(memory) /\ MembersAreStored(memory))
    /\ [][DeletedClustersWereEmptied]_vars

\* a record has been evicted from a cluster that keeps another member
C36_Witness ==
    /\ last_insertion.id >= 0
    /\ \E e \in last_insertion.evicted :
          /\ e.similarity_cluster \in ClusterIds(memory)
          /\ MembersOf(memory, e.similarity_cluster) # {}
          /\ e.id \notin MembersOf(memory, e.similarity_cluster)

\* a cluster has been deleted by the periodic cleanup
ClusterDeleted ==
    /\ Len(memory.experience_clusters) < memory.next_cluster_id
    /\ StoredIds(memory) # {}

----------------------------------------------------------------------------
(* C37 *)

\* C37: after remember_success or remember_failure the record the call
\* inserted is stored.
C37_InsertedRecordIsKept ==
    last_insertion.id >= 0 => InsertedIsStored(memory, last_insertion)

\* the part that holds: an inserted success is stored unless a stored record
\* is a success no older and no less used
InsertedSuccessIsKept ==
    /\ last_insertion.id >= 0
    /\ \E e \in last_insertion.evicted : e.id = last_insertion.id
    => \/ \E e \in last_insertion.evicted : e.id = last_insertion.id /\ ~e.success
       \/ \A k \in 1..Len(memory.experiences) : memory.experiences[k].success
----------------------------------------------------------------------------
(* Properties of the grid helpers *)

Adjacent(p, q) ==
    \/ p[1] = q[1] /\ (p[2] = q[2] + 1 \/ q[2] = p[2] + 1)
    \/ p[2] = q[2] /\ (p[1] = q[1] + 1 \/ q[1] = p[1] + 1)

\* no part of the set is cut off from the rest of it
FourConnected(S) ==
    \A T \in SUBSET S :
        (T # {} /\ T # S) => \E p \in T, q \in S \ T : Adjacent(p, q)

\* C7: every object the detector returns for a grid has a position set that is
\* not empty, whose cells all hold one colour of the grid other than the
\* background 0, and that is 4-connected.
C7_ObjectsAreComponents ==
    grid_call = "_detect_objects_in_matrix"
    => \A i \in 1..Len(grid_result) :
          /\ grid_result[i].positions # <<>>
          /\ \A p \in ToSet(grid_result[i].positions) :
                /\ Cell(matrix_after, p) # 0
                /\ \A q \in ToSet(grid_result[i].positions) :
                      Cell(matrix_after, q) = Cell(matrix_after, p)
          /\ FourConnected(ToSet(grid_result[i].positions))

\* C7 witness: the detector returned several objects, one of them of three
\* cells or more that is neither a line nor a rectangle.
C7_Witness ==
    /\ grid_call = "_detect_objects_in_matrix"
    /\ Len(grid_result) >= 2
    /\ \E i \in 1..Len(grid_result) :
          grid_result[i].size >= 3 /\ grid_result[i].shape[1] = "complex"

\* every object of the list is once in the other list, which has no more
SameObjectsOnce(objects, list) ==
    /\ Len(list) = Len(objects)
    /\ \A i \in 1..Len(objects) :
          Cardinality({j \in 1..Len(list) : list[j] = objects[i]}) = 1

\* C8: matching the objects of a grid against the objects of the same grid
\* yields no changed object, and the unchanged list holds every detected
\* object exactly once; for _compare_objects and for compare_objects.
C8_SameGridUnchanged ==
    /\ (grid_call = "_compare_objects" /\ matrix_before = matrix_after)
       => /\ grid_result.changed_objects = <<>>
          /\ SameObjectsOnce(_detect_objects_in_matrix(matrix_after),
                             grid_result.unchanged_objects)
    /\ (grid_call = "compare_objects" /\ matrix_before = matrix_after)
       => /\ grid_result.changed_objects = <<>>
          /\ SameObjectsOnce(detect_simple_objects(matrix_after),
                             grid_result.unchanged_objects)

\* C8 witness: a grid was matched against itself in which two objects have the
\* same colour and the same shape.
C8_Witness ==
    /\ grid_call = "_compare_objects"
    /\ matrix_before = matrix_after
    /\ \E i, j \in 1..Len(grid_result.unchanged_objects) :
          /\ i # j
          /\ grid_result.unchanged_objects[i].color = grid_result.unchanged_objects[j].color
          /\ grid_result.unchanged_objects[i].shape = grid_result.unchanged_objects[j].shape

\* C9: the difference of a grid with itself has no cell other than 0, and the
\* pixel-change analysis of a grid with itself reports no change: has_changes
\* is false and total_changes is 0.
C9_SameGridNoDifference ==
    /\ (grid_call = "calculate_matrix_difference" /\ matrix_before = matrix_after)
       => \A p \in ToSet(Cells(grid_result)) : Cell(grid_result, p) = 0
    /\ (grid_call = "analyze_pixel_changes" /\ matrix_before = matrix_after)
       => /\ ~grid_result.has_changes
          /\ grid_result.total_changes = 0

\* C9 witness: a grid with cells other than the background was analysed
\* against itself.
C9_Witness ==
    /\ grid_call = "analyze_pixel_changes"
    /\ matrix_before = matrix_after
    /\ \E p \in ToSet(Cells(matrix_after)) : Cell(matrix_after, p) # 0
    /\ ~grid_result.has_changes

\* the one object of the block grid: four dark-gray cells in a 2x2 square
IsBlockObject(obj, corner) ==
    /\ obj.size = 4
    /\ obj.shape = <<"square", 2, 2>>
    /\ obj.color = "dark-gray"
    /\ ToSet(obj.positions)
           = {corner, corner + 1} \X {corner, corner + 1}

\* C17: for the 4x4 grid A that is zero but for a 2x2 block of colour 3 at rows
\* and columns 0-1 and the grid B with the block at rows and columns 2-3,
\* _detect_objects_in_matrix returns for each grid exactly one object, of size
\* 4 and shape "square-2x2", and _compare_objects of A's and B's objects has
\* the object of A and the object of B in the changed list and nothing in the
\* unchanged list.
C17_MovedBlockIsChanged ==
    /\ \A corner \in {0, 2} :
          (grid_call = "_detect_objects_in_matrix" /\ matrix_after = BlockGrid(corner))
          => /\ Len(grid_result) = 1
             /\ IsBlockObject(grid_result[1], corner)
    /\ (grid_call = "_compare_objects"
           /\ matrix_before = BlockGrid(0) /\ matrix_after = BlockGrid(2))
       => /\ grid_result.unchanged_objects = <<>>
          /\ Len(grid_result.changed_objects) = 2
          /\ IsBlockObject(grid_result.changed_objects[1], 0)
          /\ IsBlockObject(grid_result.changed_objects[2], 2)

\* C17 witness: the objects of A and of B were compared and two are changed.
C17_Witness ==
    /\ grid_call = "_compare_objects"
    /\ matrix_before = BlockGrid(0)
    /\ matrix_after = BlockGrid(2)
    /\ Len(grid_result.changed_objects) = 2
    /\ grid_result.changed_objects[1].bounds = <<0, 1, 0, 1>>
    /\ grid_result.changed_objects[2].bounds = <<2, 3, 2, 3>>

\* the cell-wise difference of two grids over the rows and columns both have
CommonShapeDifference(before, after) ==
    [r \in 1..Min(Rows(before), Rows(after)) |->
        [c \in 1..Min(Cols(before), Cols(after)) |-> after[r][c] - before[r][c]]]

\* C18: the grid differ, calculate_matrix_difference as well as
\* SpatialPerceptionModule._calculate_matrix_difference, returns for two 2-D
\* grids of different shapes the cell-wise difference over both grids cropped
\* to the minimum common number of rows and columns; the all-zero default grid
\* is returned only for inputs that cannot be cropped to 2-D grids of one shape.
C18_DifferentShapesAreCropped ==
    (/\ grid_call \in {"calculate_matrix_difference", "_calculate_matrix_difference"}
     /\ ArrayShape(matrix_before) # ArrayShape(matrix_after))
    => grid_result = CommonShapeDifference(matrix_before, matrix_after)

\* What holds of the two differs: calculate_matrix_difference crops two 2-D
\* grids of different shapes, and so does _calculate_matrix_difference when
\* both have two rows and two columns at least.
DifferCropsLargerGrids ==
    (/\ grid_call \in {"calculate_matrix_difference", "_calculate_matrix_difference"}
     /\ ArrayShape(matrix_before) # ArrayShape(matrix_after)
     /\ \/ grid_call = "calculate_matrix_difference"
        \/ \A length \in ToSet(ArrayShape(matrix_before))
                           \cup ToSet(ArrayShape(matrix_after)) : length >= 2)
    => grid_result = CommonShapeDifference(matrix_before, matrix_after)

\* two objects of two grids with the same colour index, the same shape class
\* and the same set of positions
SameObject(matrix, obj, other_matrix, other) ==
    /\ ColorValue(matrix, obj) = ColorValue(other_matrix, other)
    /\ obj.shape = other.shape
    /\ ToSet(obj.positions) = ToSet(other.positions)

\* the matcher classified the object of this grid as unchanged: the unchanged
\* list has an object on its cells, the changed list does not have it
ClassifiedUnchanged(comparison, obj) ==
    /\ \E k \in 1..Len(comparison.unchanged_objects) :
           ToSet(comparison.unchanged_objects[k].positions) = ToSet(obj.positions)
    /\ obj \notin ToSet(comparison.changed_objects)

ClassifiedChanged(comparison, obj) ==
    /\ obj \in ToSet(comparison.changed_objects)
    /\ \A k \in 1..Len(comparison.unchanged_objects) :
           ToSet(comparison.unchanged_objects[k].positions) # ToSet(obj.positions)

\* every object of the grid is unchanged exactly when the other grid has the
\* same object, and changed otherwise
ExactlyTheSameUnchanged(comparison, matrix, objects, other_matrix, others) ==
    \A i \in 1..Len(objects) :
        IF \E j \in 1..Len(others) : SameObject(matrix, objects[i], other_matrix, others[j])
        THEN ClassifiedUnchanged(comparison, objects[i])
        ELSE ClassifiedChanged(comparison, objects[i])

\* C27: for any two grids, the matcher (_compare_objects of NucleiAisthesis and
\* of SpatialPerceptionModule) classifies an object as unchanged exactly when
\* the other grid has an object with the same colour index, the same shape
\* class and the same position set, and as changed in every other case: an
\* object whose cells keep their positions but change colour index is changed.
C27_UnchangedIffSameObject ==
    /\ grid_call = "_compare_objects"
       => /\ ExactlyTheSameUnchanged(grid_result,
                 matrix_before, _detect_objects_in_matrix(matrix_before),
                 matrix_after, _detect_objects_in_matrix(matrix_after))
          /\ ExactlyTheSameUnchanged(grid_result,
                 matrix_after, _detect_objects_in_matrix(matrix_after),
                 matrix_before, _detect_objects_in_matrix(matrix_before))
    /\ grid_call = "spatial_compare_objects"
       => /\ ExactlyTheSameUnchanged(grid_result,
                 matrix_before, detect_objects_in_matrix(matrix_before),
                 matrix_after, detect_objects_in_matrix(matrix_after))
          /\ ExactlyTheSameUnchanged(grid_result,
                 matrix_after, detect_objects_in_matrix(matrix_after),
                 matrix_before, detect_objects_in_matrix(matrix_before))

\* What holds of the matcher of NucleiAisthesis, whose table names the colour
\* codes 0..16 differently.
AisthesisUnchangedIffSameObject ==
    grid_call = "_compare_objects"
    => /\ ExactlyTheSameUnchanged(grid_result,
              matrix_before, _detect_objects_in_matrix(matrix_before),
              matrix_after, _detect_objects_in_matrix(matrix_after))
       /\ ExactlyTheSameUnchanged(grid_result,
              matrix_after, _detect_objects_in_matrix(matrix_after),
              matrix_before, _detect_objects_in_matrix(matrix_before))

----------------------------------------------------------------------------
(* C38 *)

\* the cells of the grid, as a set
CellSet(matrix) == ToSet(Cells(matrix))

\* the objects that hold a cell, each counted with the times it lists the cell
Holders(matrix, objects, p) ==
    {<<i, k>> \in (1..Len(objects)) \X (1..Len(Cells(matrix))) :
        k <= Len(objects[i].positions) /\ objects[i].positions[k] = p}

\* the objects partition the cells that are not background, and each is a
\* region no cell of its colour borders from outside
PartitionIntoMaximalRegions(matrix, objects) ==
    /\ \A p \in CellSet(matrix) :
          IF Cell(matrix, p) # 0
          THEN Cardinality(Holders(matrix, objects, p)) = 1
          ELSE Holders(matrix, objects, p) = {}
    /\ \A i \in 1..Len(objects) :
          /\ ToSet(objects[i].positions) \subseteq CellSet(matrix)
          /\ \A p \in ToSet(objects[i].positions), q \in CellSet(matrix) :
                Adjacent(p, q) /\ Cell(matrix, q) = Cell(matrix, p)
                => q \in ToSet(objects[i].positions)

\* C38: the objects detected in a grid, by _detect_objects_in_matrix and by
\* detect_simple_objects, partition its non-zero cells: every non-zero cell is
\* in exactly one object, no zero cell is in any, and no cell 4-adjacent to an
\* object and of its colour lies outside it.
C38_ObjectsPartitionTheGrid ==
    grid_call \in {"_detect_objects_in_matrix", "detect_simple_objects"}
    => PartitionIntoMaximalRegions(matrix_after, grid_result)

\* detect_simple_objects returned two objects of one colour that touch only
\* at a corner, and a third of another colour
C38_Witness ==
    /\ grid_call = "detect_simple_objects"
    /\ Len(grid_result) >= 3
    /\ \E i, j \in 1..Len(grid_result) :
          /\ i # j
          /\ grid_result[i].color = grid_result[j].color
          /\ \E p \in ToSet(grid_result[i].positions), q \in ToSet(grid_result[j].positions) :
                (p[1] - q[1]) * (p[1] - q[1]) = 1 /\ (p[2] - q[2]) * (p[2] - q[2]) = 1
----------------------------------------------------------------------------
(* Properties of the parsing of the decision *)

\* an element of a decision: a valid action name, alone or with two coordinates
ValidAction(item) ==
    /\ item.type \in {"str", "dict"}
    /\ \E k \in 1..Len(valid_actions) : item.action = valid_actions[k]
    /\ item.type = "dict" => Len(item.coordinates) = 2

\* a non-empty sequence of at most 5 valid actions
Usable(items) ==
    /\ items # <<>>
    /\ Len(items) <= LongestSequence
    /\ \A i \in 1..Len(items) : ValidAction(items[i])

\* the structured parse gives a list under the key action_sequence
StructuredSequence(text) ==
    /\ extract_action_from_response(text).key = "action_sequence"
    /\ extract_action_from_response(text).list

\* the text has an action keyword
HasKeyword(text) ==
    \E i \in 1..Len(text) : \E word \in WordsOf(text[i]) :
        \E k \in 1..Len(valid_actions) : lower(word) = valid_actions[k]

\* C19: for any response text, _parse_action_response follows the staged
\* fallback: the decision is the structured parse if that gives a non-empty
\* sequence of at most 5 valid actions, otherwise an action keyword found in
\* the text, otherwise the default ["up"]; the action sequence of the decision
\* is never empty and holds valid action names only.
C19_StagedFallback ==
    action_data # NoActionData
    => /\ Usable(action_data.action_sequence)
       /\ LET structured == /\ StructuredSequence(response_text)
                            /\ Usable(extract_action_from_response(response_text).items)
          IN  /\ structured
                  => /\ action_data.stage = "structured"
                     /\ action_data.action_sequence
                            = extract_action_from_response(response_text).items
              /\ (~structured /\ HasKeyword(response_text))
                  => /\ action_data.stage = "text"
                     /\ Len(action_data.action_sequence) = 1
                     /\ action_data.action_sequence[1].type = "str"
                     /\ \E i \in 1..Len(response_text) :
                            \E word \in WordsOf(response_text[i]) :
                                lower(word) = action_data.action_sequence[1].action
              /\ (~structured /\ ~HasKeyword(response_text))
                  => /\ action_data.stage = "default"
                     /\ action_data.action_sequence = <<Str("up")>>

\* C19 witness: the structured parse found a sequence that names no action, and
\* the decision is the keyword of another token of the text.
C19_Witness ==
    /\ action_data.stage = "text"
    /\ StructuredSequence(response_text)
    /\ extract_action_from_response(response_text).items = <<Str("jump")>>
    /\ action_data.action_sequence = <<Str("left")>>

----------------------------------------------------------------------------
(* Properties of the detection of progress *)

\* the keywords _create_multidimensional_progress_analysis looks for
ProgressKeywords ==
    {"new level", "level up", "different area", "new region", "explored",
     "player moved", "player position", "moved from", "player.*center",
     "player.*region", "changed objects", "objects that changed", "transformation",
     "activated", "triggered", "interaction", "button", "switch", "door", "key",
     "confirmed", "proven", "verified", "hypothesis", "theory", "suggests", "might",
     "pattern", "rule", "mechanism", "understanding", "learned", "discovered",
     "goal", "objective", "target", "exit", "win condition", "progress toward",
     "strategy", "approach", "plan", "sequence", "optimal", "efficient",
     "no effect", "no impact", "major progress", "score", "minor progress",
     "changed", "valid action", "click", "coordinates", "specific", "targeted",
     "precise", "random", "exploratory", "finish", "complete", "win"}

\* the analysis text has none of the keywords and the score did not change
Ambiguous ==
    /\ \A phrase \in aisthesis_analysis : KeywordsIn(phrase) \cap ProgressKeywords = {}
    /\ frame_scores[2] = frame_scores[1]

\* C20: when the progress signal is ambiguous (the analysis text has none of
\* the progress keywords and the score did not change), _detect_progress
\* returns VALID_ACTION, the weakest positive classification, not NO_EFFECT.
C20_AmbiguousIsValidAction ==
    (progress # "none" /\ Ambiguous) => progress = "VALID_ACTION"

\* What the code does with an ambiguous signal: the defaults 0.5, 0.6 and 0.3
\* of the strategic measures give the score 0.094, below 0.2.
AmbiguousIsNoEffect ==
    (progress # "none" /\ Ambiguous) => progress = "NO_EFFECT"

----------------------------------------------------------------------------
(* Claims on analyze_action_effect *)

Analysed == structured_data # NoStructuredData

ScoreIncreased == game_frames[2].score > game_frames[1].score
EnteredGameOver == game_frames[2].state = "GAME_OVER" /\ game_frames[1].state # "GAME_OVER"
LeftGameOver == game_frames[1].state = "GAME_OVER" /\ game_frames[2].state # "GAME_OVER"

\* C33: when the score increased from the previous frame to the latest, or the
\* game entered or left game-over, the analysis is a level transition with no
\* objects before, after, changed or unchanged, of type LEVEL_UP if the score
\* increased, else LEVEL_LOST if the game is over, else GAME_RESET.
C33_LevelTransitionSkipsDiffing ==
    Analysed /\ (ScoreIncreased \/ EnteredGameOver \/ LeftGameOver)
    => /\ structured_data.is_level_transition
       /\ structured_data.objects_before = <<>>
       /\ structured_data.objects_after = <<>>
       /\ structured_data.changed_objects = <<>>
       /\ structured_data.unchanged_objects = <<>>
       /\ structured_data.transformation_type =
              IF ScoreIncreased THEN "LEVEL_UP"
              ELSE IF EnteredGameOver THEN "LEVEL_LOST"
              ELSE "GAME_RESET"

\* the score increased with the frame that ended the game, the block moved,
\* and the analysis has been made
C33_Witness ==
    /\ Analysed
    /\ ScoreIncreased
    /\ EnteredGameOver
    /\ matrix_before # matrix_after
    /\ _detect_objects_in_matrix(matrix_after) # <<>>
    /\ structured_data.is_level_transition

\* the other frames are compared as usual
OrdinaryOtherwise ==
    Analysed /\ ~(ScoreIncreased \/ EnteredGameOver \/ LeftGameOver)
    => ~structured_data.is_level_transition

\* a reset after the loss of a level has been analysed
ResetAnalysed ==
    Analysed /\ LeftGameOver /\ structured_data.transformation_type = "GAME_RESET"
----------------------------------------------------------------------------
(* The queue of orders of the agent (agents/tomas/tomas.py).                  *)

Pending ==
    /\ order_queue.pending_orders # <<>>
    /\ order_queue.current_order_index < Len(order_queue.pending_orders)

\* a step that is one choose_action call
AgentStep == to_move = "agent" /\ to_move' = "game"

GameRuns == game_state \notin {"NOT_PLAYED", "GAME_OVER"}

\* the orders handed out since the latest list was queued are its first
\* ones, in the order of the list, none of them twice
HandedOutInListOrder ==
    /\ Len(handed_out) <= Len(queued)
    /\ \A i \in 1..Len(handed_out) : handed_out[i] = i

IndexInBounds ==
    /\ order_queue.current_order_index >= 0
    /\ order_queue.current_order_index <= Len(order_queue.pending_orders)

\* when no order is pending, every order of the list was handed out
AllHandedOut == ~Pending => Len(handed_out) = Len(queued)

\* when no order is pending, every order of the list was handed out, or the
\* last one handed out named an action the action map does not have
HandedOutOrDiscarded ==
    (~Pending /\ queued # <<>>) =>
        /\ handed_out # <<>>
        /\ \/ Len(handed_out) = Len(queued)
           \/ queued[Len(handed_out)] \notin action_map

\* the call takes the next order of the queue and does not run the
\* cognitive flow
NextOrderTaken ==
    /\ last_choice'.mode \in {"order", "unrecognised_order"}
    /\ ~last_choice'.cognitive
    /\ last_choice'.order = order_queue.current_order_index + 1
    /\ handed_out' = Append(handed_out, order_queue.current_order_index + 1)

PendingOrderExecuted == (AgentStep /\ Pending) => NextOrderTaken

PendingOrderExecutedWhenGameRuns == (AgentStep /\ Pending /\ GameRuns) => NextOrderTaken

\* before a game and after a lost one the call answers RESET and keeps the
\* queue
ResetKeepsQueue ==
    (AgentStep /\ ~GameRuns) =>
        /\ last_choice'.mode = "RESET"
        /\ ~last_choice'.cognitive
        /\ UNCHANGED <<order_queue, queued, handed_out>>

\* an order whose action is not recognised empties the queue
UnrecognisedDiscards ==
    (AgentStep /\ last_choice'.mode = "unrecognised_order") => order_queue' = NoOrders

\* orders become pending only by the cognitive flow queueing a new list
NoOrdersUntilAdded ==
    (~Pending /\ Pending') =>
        /\ last_choice'.cognitive
        /\ queued' # <<>>
        /\ order_queue'.pending_orders = queued'
        /\ handed_out' = <<1>>

\* C39 as stated: the orders queued by add_orders_from_logos are handed out
\* in list order, each exactly once; the index stays within 0..len of the
\* queue; while orders are pending choose_action executes the next order
\* without the cognitive flow; once none is pending, none is until new orders
\* are added.
C39_EveryOrderOnceAndFirst ==
    /\ [](HandedOutInListOrder /\ IndexInBounds /\ AllHandedOut)
    /\ [][PendingOrderExecuted /\ NoOrdersUntilAdded]_vars

\* C39, amended: the orders queued by add_orders_from_logos are handed out in
\* list order, none twice, and all of them unless one names an unrecognised
\* action, which discards the rest; the index stays within 0..len of the
\* queue; while orders are pending and the game is neither unstarted nor
\* over, choose_action executes the next order without the cognitive flow,
\* and otherwise it answers RESET and keeps the queue; once none is pending,
\* none is until the cognitive flow queues new orders.
C39_OrdersInListOrder ==
    /\ [](HandedOutInListOrder /\ IndexInBounds /\ HandedOutOrDiscarded)
    /\ [][/\ PendingOrderExecutedWhenGameRuns
          /\ ResetKeepsQueue
          /\ UnrecognisedDiscards
          /\ NoOrdersUntilAdded]_vars

\* a list of MaxOrders orders was handed out to its end, the last orders
\* without the cognitive flow
C39_Witness ==
    /\ Len(queued) = MaxOrders
    /\ handed_out = [i \in 1..MaxOrders |-> i]
    /\ ~Pending
    /\ last_choice.mode = "order"
    /\ ~last_choice.cognitive

\* the game was lost while orders were pending, and the call answered RESET
ResetWhilePending == Pending /\ last_choice.mode = "RESET"

\* an unrecognised order discarded orders that were never handed out
OrdersDiscarded ==
    /\ last_choice.mode = "unrecognised_order"
    /\ Len(handed_out) < Len(queued)

\* every call with pending orders executes the next one (violated after a
\* lost game)
AlwaysPendingOrderExecuted == [][PendingOrderExecuted]_vars
====
